---- MODULE Spec2Model ----
(***************************************************************************)
(* Model of the restaurant platform sync service: the sync orchestrator    *)
(* (services/sync_service.py), the status store it writes to               *)
(* (repositories/sync_repositories.py) and the collaborators it calls      *)
(* (menu service client, platform adapters).                               *)
(*                                                                         *)
(* One orchestrator call is in progress at a time (`call`); every platform *)
(* of the call has a task record (`task`) that follows the coroutine       *)
(* sync_to_platform from one suspension point (await) to the next.         *)
(*                                                                         *)
(* The specifications share the state: Spec (the orchestrator called       *)
(* directly), SpecClients (the repositories and the menu service client    *)
(* called directly), SpecErrors and SpecRecords (the error service),       *)
(* SpecHandlers (the event and API handlers on top of the orchestrator and *)
(* error service), SpecEvents and SpecAdmin (every request up to its       *)
(* orchestrator call), SpecModels (the models and their store items),      *)
(* SpecOperations (the sync operation table), SpecAdapter (the DoorDash     *)
(* adapter called directly), SpecUnconfigured (the service without         *)
(* platform adapters) and SpecLive (one orchestrator call under fair       *)
(* scheduling).                                                            *)
(***************************************************************************)
EXTENDS Integers, Sequences, FiniteSets, TLC

\* ------------------------------------------------------------------ bounds
MaxItems == 1       \* longest menu the menu service returns
MaxCalls == 2       \* orchestrator calls started in one behaviour
MaxIncrements == 3  \* invocations of increment_retry_count in one behaviour

\* ------------------------------------------------------------- value sets
Restaurants == {"rest_1"}
Platforms == {"doordash", "ubereats"}

\* The adapters in the order in which start-up registers them.
ConfiguredAdapters == <<"doordash", "ubereats">>

\* The restaurant's i-th menu item, reduced to the field the orchestrator's
\* outcome can depend on: the items are alternately unavailable and available.
CatalogueItem(i) == [available |-> (i % 2 = 0)]

\* The item lists the menu service can return for the restaurant: the first n
\* items of its catalogue, n <= MaxItems (the menu grows and shrinks over time).
Menus == {[i \in 1..n |-> CatalogueItem(i)] : n \in 0..MaxItems}

\* The platform_adapters dicts a caller can pass: the configured adapters or
\* any part of them, in registration order.
AdapterMaps ==
    {SelectSeq(ConfiguredAdapters, LAMBDA p : p \in S) : S \in SUBSET Platforms}

\* Outcomes of table.put_item: accepted, a botocore ClientError, or any other
\* exception of the client (connection failure, timeout: BotoCoreError).
StoreOutcomes == {"ok", "client_error", "other_error"}

Range(s) == {s[i] : i \in DOMAIN s}

\* ------------------------------------------------------------ data model
SyncResult(success, platform, item_count, error_message) ==
    [success |-> success, platform |-> platform,
     item_count |-> item_count, error_message |-> error_message]

\* No SyncResult (the coroutine has not returned one).
NoResult == SyncResult(FALSE, "", -1, "unset")

SyncStatus(restaurant_id, platform, status, last_sync_time, item_count) ==
    [restaurant_id |-> restaurant_id, platform |-> platform, status |-> status,
     last_sync_time |-> last_sync_time, item_count |-> item_count,
     external_menu_id |-> "none"]

\* No row / no status object.
NoStatus == SyncStatus("", "", "absent", 0, -1)

\* The error messages of sync_to_platform, by the step that produced them.
FetchFailedMsg == "Failed to fetch menu data for restaurant"
FormatFailedMsg == "Failed to format menu for platform"
PublishFailedMsg == "Failed to publish menu after all retry attempts"

\* An optional value: None, or a value. The same for an attribute of a
\* DynamoDB item: not in the item, or in it with a value.
None == <<>>

Some(v) == <<v>>

Opt(S) == {None} \cup {Some(v) : v \in S}

\* The ids of sync operations.
OperationIds == {"op_1"}

\* The item of a sync operation, attribute by attribute; NoRow has none.
OperationItem(operation_id, restaurant_id, platform, status, total_items, items_processed) ==
    [operation_id |-> operation_id, restaurant_id |-> restaurant_id,
     platform |-> platform, status |-> status, total_items |-> total_items,
     items_processed |-> items_processed]

NoRow == OperationItem(None, None, None, None, None, None)

\* ------------------------------------------------------------- variables
VARIABLES
    call,          \* the orchestrator call in progress and its caller's view
    task,          \* per platform: the sync_to_platform coroutine of the call
    status_store,  \* the sync status table: (restaurant_id, platform) -> row
    now,           \* the clock read by datetime.now(UTC); it ticks between calls
    calls,         \* number of orchestrator calls started so far
    error_store,   \* the sync error table: the set of its rows
    next_uuid,     \* the next value uuid.uuid4() yields
    incr,          \* the invocations of ErrorService.increment_retry_count
    op,            \* the last finished operation of a store or client, and its report
    handler,       \* the handler run in progress
    operation_store,  \* the sync operation table: operation_id -> its item
    adapter        \* the DoorDash adapter: its last format_menu call and its publish_menu call

recorder_vars == <<error_store, next_uuid, incr, op, handler, operation_store, adapter>>

vars ==
    <<call, task, status_store, now, calls, error_store, next_uuid, incr, op, handler,
      operation_store, adapter>>

StatusKeys == Restaurants \X Platforms

IdleCall ==
    [kind |-> "none", restaurant_id |-> "", adapters |-> <<>>, retry |-> FALSE,
     state |-> "idle", results |-> <<>>]

InitTask ==
    [pc |-> "idle", fetch_calls |-> 0, format_calls |-> 0, publish_calls |-> 0,
     menu_data |-> "pending", items |-> <<>>,
     format_ok |-> FALSE, formatted |-> <<>>,
     first_publish |-> "none", publish_success |-> FALSE,
     status_writes |-> 0, written |-> NoStatus, write_outcome |-> "none",
     result |-> NoResult]

\* models/sync_models.py SyncError; menu_snapshot is None or a snapshot of the
\* items that were being synced.
SyncError(error_id, created_at, restaurant_id, platform, error_details, menu_snapshot, retry_count) ==
    [error_id |-> error_id, created_at |-> created_at, restaurant_id |-> restaurant_id,
     platform |-> platform, error_details |-> error_details,
     menu_snapshot |-> menu_snapshot, retry_count |-> retry_count]

NoSnapshot == [present |-> FALSE, items |-> <<>>, categories |-> <<>>]

\* An optional list argument that is None.
NotGiven == [given |-> FALSE, list |-> <<>>]

\* An optional list argument that is a list.
Given(list) == [given |-> TRUE, list |-> list]

NoError == SyncError(0, 0, "", "", "", NoSnapshot, -1)

\* An invocation slot of increment_retry_count that has not been called.
IdleIncrement ==
    [pc |-> "idle", error_id |-> 0, created_at |-> 0, target |-> NoError,
     retry_count |-> -1, reads |-> 0, writes |-> 0, overlapped |-> FALSE,
     result |-> "none"]

\* No operation of a store or client has finished yet.
NoOp == [name |-> "none", outcome |-> "none", outcome2 |-> "none", requests |-> 0,
         report |-> "none", status |-> NoStatus, replaced |-> NoStatus,
         error |-> NoError, menu_items |-> NotGiven, menu_categories |-> NotGiven]

\* A field a request or an event does not carry.
Missing == "<missing>"

\* No event has been delivered.
NoEvent ==
    [source |-> Missing, detail_type |-> Missing,
     detail |-> [restaurant_id |-> Missing, event_type |-> Missing,
                 timestamp |-> Missing]]

\* No handler is running. key is the X-API-Key header of the request, event
\* the delivered EventBridge event, error_id the id in the path of an error
\* retry, reads the store requests the handler made before it answered or
\* awaited the orchestrator.
IdleHandler ==
    [kind |-> "none", state |-> "idle", target |-> NoError, failed |-> 0,
     succeeded |-> 0, accepted |-> 0, rejected |-> 0, created |-> 0,
     response |-> "none", key |-> Missing, event |-> NoEvent, reads |-> 0,
     error_id |-> 0]

\* A DoorDashAdapter nobody has called yet: the arguments and the result of its
\* format_menu call, and its publish_menu call with the requests it sent and
\* the responses it got.
IdleAdapter ==
    [pc |-> "new", items |-> <<>>, categories |-> <<>>,
     format_calls |-> 0, formatted |-> None, format_raised |-> FALSE,
     restaurant_id |-> "", sent |-> <<>>, auth_response |-> None, menu_response |-> None,
     returned |-> None, raised |-> FALSE]

\* ------------------------------------------------------- pure operations

\* DoorDashAdapter.format_menu: the formatted payload keeps the available items.
format_menu(items) == SelectSeq(items, LAMBDA it : it.available)

\* Variant: the reported count is that of the formatted (filtered) payload.
ItemCountFormatted(items) == Len(format_menu(items))

\* len(items): the item count reported in SyncStatus and SyncResult.
ItemCount(items) == Len(items)

\* Variant: the retry flag is not consulted.
ShouldRetryAlways(publish_success, retry) == ~publish_success

\* `if not publish_success and retry` : a second publish attempt is made.
ShouldRetry(publish_success, retry) == (~publish_success) /\ retry

\* Variant: an existing row is updated in place (SET status, last_sync_time);
\* the other attributes of the earlier row stay.
save_status_update(store, status, outcome) ==
    LET k == <<status.restaurant_id, status.platform>> IN
    [store |-> IF outcome = "ok"
               THEN [store EXCEPT ![k] =
                        IF @.status = "absent" THEN status
                        ELSE [@ EXCEPT !.status = status.status,
                                       !.last_sync_time = status.last_sync_time]]
               ELSE store,
     status |-> status,
     outcome |-> outcome,
     returned |-> (outcome = "ok"),
     raised |-> (outcome = "other_error")]

\* SyncStatusRepository.save_status: put_item overwrites the row with the
\* status' key; a ClientError is caught (returns False); any other exception
\* propagates.
save_status(store, status, outcome) ==
    [store |-> IF outcome = "ok"
               THEN [store EXCEPT ![<<status.restaurant_id, status.platform>>] = status]
               ELSE store,
     status |-> status,
     outcome |-> outcome,
     returned |-> (outcome = "ok"),
     raised |-> (outcome = "other_error")]

\* Variant: a published menu is recorded as in_progress (to be confirmed by
\* the platform later).
save_success_status_in_progress(store, restaurant_id, platform, item_count, time, outcome) ==
    save_status(store, SyncStatus(restaurant_id, platform, "in_progress", time, item_count),
                outcome)

\* SyncService._save_success_status
save_success_status(store, restaurant_id, platform, item_count, time, outcome) ==
    save_status(store, SyncStatus(restaurant_id, platform, "completed", time, item_count),
                outcome)

\* Variant: the failures of a restaurant share one row, that of the first
\* configured platform.
save_failed_status_shared_row(store, restaurant_id, platform, item_count, time, outcome) ==
    save_status(store,
                SyncStatus(restaurant_id, ConfiguredAdapters[1], "failed", time, item_count),
                outcome)

\* SyncService._save_failed_status
save_failed_status(store, restaurant_id, platform, item_count, time, outcome) ==
    save_status(store, SyncStatus(restaurant_id, platform, "failed", time, item_count),
                outcome)

\* Variant: the SyncResult is handed back first and the status write is left
\* for later.
CompleteBeforeWrite(t, res, sv) == [t EXCEPT !.pc = "done", !.result = res]

\* The coroutine after `await self._save_..._status(...)`: it returns `res`
\* unless the status write raised, in which case the exception leaves the
\* coroutine and no SyncResult is produced. The value save_status returned is
\* not looked at.
Complete(t, res, sv) ==
    [t EXCEPT !.pc = IF sv.raised THEN "raised" ELSE "done",
              !.result = IF sv.raised THEN NoResult ELSE res,
              !.status_writes = @ + 1,
              !.written = sv.status,
              !.write_outcome = sv.outcome]

\* Variant: the fetch is tried a second time before giving up.
FetchFailedRefetch(t, restaurant_id, platform, store, time, outcome) ==
    LET sv == save_failed_status(store, restaurant_id, platform, 0, time, outcome)
    IN  [task |-> Complete([t EXCEPT !.menu_data = "absent", !.fetch_calls = @ + 1],
                           SyncResult(FALSE, platform, 0, FetchFailedMsg), sv),
         store |-> sv.store]

\* Step 1 failed: menu_data is None.
FetchFailed(t, restaurant_id, platform, store, time, outcome) ==
    LET sv == save_failed_status(store, restaurant_id, platform, 0, time, outcome)
    IN  [task |-> Complete([t EXCEPT !.menu_data = "absent"],
                           SyncResult(FALSE, platform, 0, FetchFailedMsg), sv),
         store |-> sv.store]

\* Variant: a format failure is recorded with item_count 0, like a fetch failure.
FormatFailedZeroCount(t, restaurant_id, platform, store, time, outcome) ==
    LET sv == save_failed_status(store, restaurant_id, platform, 0, time, outcome)
    IN  [task |-> Complete(t, SyncResult(FALSE, platform, 0, FormatFailedMsg), sv),
         store |-> sv.store]

\* Step 2 failed: adapter.format_menu returned None.
FormatFailed(t, restaurant_id, platform, store, time, outcome) ==
    LET sv == save_failed_status(store, restaurant_id, platform,
                                 ItemCount(t.items), time, outcome)
    IN  [task |-> Complete(t, SyncResult(FALSE, platform, ItemCount(t.items),
                                         FormatFailedMsg), sv),
         store |-> sv.store]

\* Variant: a publish failure is recorded with item_count 0.
RecordOutcomeZeroOnFailure(t, restaurant_id, platform, publish_success, store, time, outcome) ==
    IF publish_success
    THEN LET sv == save_success_status(store, restaurant_id, platform,
                                       ItemCount(t.items), time, outcome)
         IN  [task |-> Complete(t, SyncResult(TRUE, platform, ItemCount(t.items),
                                              "none"), sv),
              store |-> sv.store]
    ELSE LET sv == save_failed_status(store, restaurant_id, platform, 0, time, outcome)
         IN  [task |-> Complete(t, SyncResult(FALSE, platform, 0, PublishFailedMsg), sv),
              store |-> sv.store]

\* Step 4: record the outcome of the last publish attempt.
RecordOutcome(t, restaurant_id, platform, publish_success, store, time, outcome) ==
    IF publish_success
    THEN LET sv == save_success_status(store, restaurant_id, platform,
                                       ItemCount(t.items), time, outcome)
         IN  [task |-> Complete(t, SyncResult(TRUE, platform, ItemCount(t.items),
                                              "none"), sv),
              store |-> sv.store]
    ELSE LET sv == save_failed_status(store, restaurant_id, platform,
                                      ItemCount(t.items), time, outcome)
         IN  [task |-> Complete(t, SyncResult(FALSE, platform, ItemCount(t.items),
                                              PublishFailedMsg), sv),
              store |-> sv.store]

\* A coroutine that has just been started: it runs to its first await, the
\* request of get_menu_data.
BeginTask == [InitTask EXCEPT !.pc = "fetching", !.fetch_calls = 1]

\* The pcs at which a coroutine is suspended in an await that can still return.
Live == {"fetching", "publishing", "sleeping"}

\* Variant: the coroutines are awaited one after the other, in the order of
\* the dict, so a coroutine runs only when those before it have ended.
RunnableInTurn(p) ==
    /\ task[p].pc \in Live
    /\ \A i, j \in DOMAIN call.adapters :
          (call.adapters[j] = p /\ i < j) => task[call.adapters[i]].pc \in {"done", "raised"}

\* The event loop resumes a suspended coroutine as soon as what it awaits is
\* ready, whatever the other coroutines of the gather are doing.
Runnable(p) == task[p].pc \in Live

\* What the caller of sync_to_platform sees when its coroutine ends: with a
\* direct await the caller resumes in the same step.
CallAfter(c, t) ==
    IF c.kind = "single"
    THEN IF t.pc = "done" THEN [c EXCEPT !.state = "returned", !.results = <<t.result>>]
         ELSE IF t.pc = "raised" THEN [c EXCEPT !.state = "raised"]
         ELSE c
    ELSE c

\* Variant: every entry of the list is the result of the first task.
GatherResultsFirst(adapters) == [i \in DOMAIN adapters |-> task[adapters[1]].result]

\* results = await asyncio.gather(*tasks); return list(results):
\* one result per task, in the order of the tasks.
GatherResults(adapters) == [i \in DOMAIN adapters |-> task[adapters[i]].result]

\* Variant: only the first adapter of the dict gets a coroutine.
BatchTasksFirstOnly(adapters) ==
    [q \in Platforms |-> IF adapters /= <<>> /\ q = adapters[1] THEN BeginTask ELSE InitTask]

\* The loop over platform_adapters.items(): one sync_to_platform coroutine per
\* adapter; each starts with its own get_menu_data request.
BatchTasks(adapters) ==
    [q \in Platforms |-> IF q \in Range(adapters) THEN BeginTask ELSE InitTask]

\* ---------------------------------------------------------------- Init
Init ==
    /\ call = IdleCall
    /\ task = [p \in Platforms |-> InitTask]
    /\ status_store = [k \in StatusKeys |-> NoStatus]
    /\ now = 0
    /\ calls = 0
    /\ error_store = {}
    /\ next_uuid = 1
    /\ incr = [i \in 1..MaxIncrements |-> IdleIncrement]
    /\ op = NoOp
    /\ handler = IdleHandler
    /\ operation_store = [id \in OperationIds |-> NoRow]
    /\ adapter = IdleAdapter

\* --------------------------------------------------------------- actions

\* A caller awaits sync_to_platform(restaurant_id, platform, adapter, retry).
SyncToPlatform(r, p, retry) ==
    /\ call.state = "idle"
    /\ calls < MaxCalls
    /\ call' = [kind |-> "single", restaurant_id |-> r, adapters |-> <<p>>,
                retry |-> retry, state |-> "running", results |-> <<>>]
    /\ task' = [q \in Platforms |-> IF q = p THEN BeginTask ELSE InitTask]
    /\ calls' = calls + 1
    /\ now' = now + 1
    /\ UNCHANGED status_store
    /\ UNCHANGED recorder_vars

\* A caller awaits sync_to_multiple_platforms(restaurant_id, platform_adapters,
\* retry): one coroutine per adapter is created and handed to asyncio.gather.
SyncToMultiplePlatforms(r, adapters, retry) ==
    /\ call.state = "idle"
    /\ calls < MaxCalls
    /\ call' = [kind |-> "batch", restaurant_id |-> r, adapters |-> adapters,
                retry |-> retry, state |-> "running", results |-> <<>>]
    /\ task' = BatchTasks(adapters)
    /\ calls' = calls + 1
    /\ now' = now + 1
    /\ UNCHANGED status_store
    /\ UNCHANGED recorder_vars

\* get_menu_data returns (or raises) in the coroutine of platform p; the
\* coroutine runs on to its next await or to its end.
FetchReturns(p) ==
    /\ Runnable(p)
    /\ task[p].pc = "fetching"
    /\ LET r == call.restaurant_id
           t == task[p]
       IN
       \/ \* get_menu_data raises: an exception the client does not catch (only
          \* httpx errors are), e.g. a response body that is not valid JSON
          /\ task' = [task EXCEPT ![p] = [t EXCEPT !.pc = "raised", !.menu_data = "fault"]]
          /\ call' = CallAfter(call, task'[p])
          /\ UNCHANGED status_store
       \/ \* menu_data is None
          \E outcome \in StoreOutcomes :
             LET f == FetchFailed(t, r, p, status_store, now, outcome)
             IN  /\ task' = [task EXCEPT ![p] = f.task]
                 /\ status_store' = f.store
                 /\ call' = CallAfter(call, f.task)
       \/ \* (items, categories), and format_menu returns None
          \E menu \in Menus, outcome \in StoreOutcomes :
             LET t1 == [t EXCEPT !.menu_data = "data", !.items = menu,
                                 !.format_calls = 1, !.format_ok = FALSE]
                 f == FormatFailed(t1, r, p, status_store, now, outcome)
             IN  /\ task' = [task EXCEPT ![p] = f.task]
                 /\ status_store' = f.store
                 /\ call' = CallAfter(call, f.task)
       \/ \* (items, categories), format_menu returns the payload: first publish
          \E menu \in Menus :
             /\ task' = [task EXCEPT ![p] =
                            [t EXCEPT !.menu_data = "data", !.items = menu,
                                      !.format_calls = 1, !.format_ok = TRUE,
                                      !.formatted = format_menu(menu),
                                      !.pc = "publishing", !.publish_calls = 1]]
             /\ UNCHANGED <<status_store, call>>
    /\ UNCHANGED <<now, calls>>
    /\ UNCHANGED recorder_vars

\* adapter.publish_menu returns in the coroutine of platform p. (A publish call
\* that never returns is a behaviour in which this step never happens for p.)
PublishReturns(p) ==
    /\ Runnable(p)
    /\ task[p].pc = "publishing"
    /\ \E ok \in BOOLEAN :
         LET r == call.restaurant_id
             t == [task[p] EXCEPT !.publish_success = ok,
                                  !.first_publish = IF task[p].publish_calls = 1
                                                    THEN (IF ok THEN "true" ELSE "false")
                                                    ELSE @]
         IN  IF t.publish_calls = 1 /\ ShouldRetry(ok, call.retry)
             THEN /\ task' = [task EXCEPT ![p] = [t EXCEPT !.pc = "sleeping"]]
                  /\ UNCHANGED <<status_store, call>>
             ELSE \E outcome \in StoreOutcomes :
                  LET f == RecordOutcome(t, r, p, ok, status_store, now, outcome)
                  IN  /\ task' = [task EXCEPT ![p] = f.task]
                      /\ status_store' = f.store
                      /\ call' = CallAfter(call, f.task)
    /\ UNCHANGED <<now, calls>>
    /\ UNCHANGED recorder_vars

\* asyncio.sleep(retry_delay_seconds) is over: the coroutine calls publish_menu
\* a second time.
RetryDelayElapses(p) ==
    /\ Runnable(p)
    /\ task[p].pc = "sleeping"
    /\ task' = [task EXCEPT ![p] = [@ EXCEPT !.pc = "publishing", !.publish_calls = @ + 1]]
    /\ UNCHANGED <<call, status_store, now, calls>>
    /\ UNCHANGED recorder_vars

\* Variant: the batch is given up after a timeout and returns the results it
\* has by then.
BatchReturnsOnTimeout ==
    /\ call.kind = "batch"
    /\ call.state = "running"
    /\ call' = [call EXCEPT !.state = "returned", !.results = GatherResults(call.adapters)]
    /\ UNCHANGED <<task, status_store, now, calls>>
    /\ UNCHANGED recorder_vars

\* The gather future completes with the list of results once every task has
\* returned.
BatchReturns ==
    /\ call.kind = "batch"
    /\ call.state = "running"
    /\ \A p \in Range(call.adapters) : task[p].pc = "done"
    /\ call' = [call EXCEPT !.state = "returned", !.results = GatherResults(call.adapters)]
    /\ UNCHANGED <<task, status_store, now, calls>>
    /\ UNCHANGED recorder_vars

\* asyncio.gather without return_exceptions: the first exception raised by a
\* task is propagated to the awaiting caller; the other tasks are neither
\* awaited nor cancelled.
BatchRaises ==
    /\ call.kind = "batch"
    /\ call.state = "running"
    /\ \E p \in Range(call.adapters) : task[p].pc = "raised"
    /\ call' = [call EXCEPT !.state = "raised"]
    /\ UNCHANGED <<task, status_store, now, calls>>
    /\ UNCHANGED recorder_vars

\* The caller has its answer and every coroutine of the call has ended: the
\* next call can start.
CallerContinues ==
    /\ call.state \in {"returned", "raised"}
    /\ \A p \in Platforms : task[p].pc \notin Live
    /\ call' = IdleCall
    /\ task' = [p \in Platforms |-> InitTask]
    /\ UNCHANGED <<status_store, now, calls>>
    /\ UNCHANGED recorder_vars

Next ==
    \/ \E r \in Restaurants, p \in Platforms, retry \in BOOLEAN : SyncToPlatform(r, p, retry)
    \/ \E r \in Restaurants, a \in AdapterMaps, retry \in BOOLEAN :
          SyncToMultiplePlatforms(r, a, retry)
    \/ \E p \in Platforms : FetchReturns(p)
    \/ \E p \in Platforms : PublishReturns(p)
    \/ \E p \in Platforms : RetryDelayElapses(p)
    \/ BatchReturns
    \/ BatchRaises
    \/ CallerContinues

Spec == Init /\ [][Next]_vars

\* ===================================================================
\* Properties of sync_to_platform
\* ===================================================================

Key(p) == <<call.restaurant_id, p>>

\* The row of (restaurant_id, p) is the status this coroutine wrote, when the
\* store accepted the write.
StoredIfAccepted(p) ==
    task[p].write_outcome = "ok" => status_store[Key(p)] = task[p].written

\* C1: a sync_to_platform call that ends in success (the last publish attempt
\* returned true) has written a SyncStatus for (restaurant_id, platform) with
\* status completed, the current time and item_count = number of fetched
\* items (available or not), and returns SyncResult(success=true) with the
\* same item_count.
C1_SuccessWritesCompleted ==
    \A p \in Platforms :
        LET t == task[p] IN
        (t.pc = "done" /\ t.publish_calls >= 1 /\ t.publish_success) =>
            /\ t.result = SyncResult(TRUE, p, Len(t.items), "none")
            /\ t.written = SyncStatus(call.restaurant_id, p, "completed", now, Len(t.items))
            /\ StoredIfAccepted(p)

\* Reached: retry=true, first publish false, second true, a fetched menu with
\* an unavailable item (left out of the formatted payload), status row stored.
C1_Witness ==
    \E p \in Platforms :
        LET t == task[p] IN
        /\ t.pc = "done" /\ call.retry
        /\ t.first_publish = "false" /\ t.publish_calls = 2 /\ t.publish_success
        /\ Len(t.items) = MaxItems /\ Len(t.formatted) < Len(t.items)
        /\ t.result.success /\ t.result.item_count = MaxItems
        /\ status_store[Key(p)].status = "completed"
        /\ status_store[Key(p)].item_count = MaxItems

\* C2: when fetch and format succeeded, publish is invoked exactly once if
\* retry=false or the first attempt returned true, exactly twice if the first
\* attempt returned false and retry=true, and never a third time.
C2_PublishCount ==
    \A p \in Platforms :
        LET t == task[p] IN
        /\ t.publish_calls <= 2
        /\ (t.format_ok /\ t.pc \in {"done", "raised"}) =>
              t.publish_calls = IF t.first_publish = "false" /\ call.retry THEN 2 ELSE 1
        /\ t.publish_calls = 2 => (t.first_publish = "false" /\ call.retry)

\* Reached: a call with retry=false whose only publish attempt returned false.
C2_Witness ==
    \E p \in Platforms :
        /\ task[p].pc = "done" /\ ~call.retry
        /\ task[p].first_publish = "false" /\ task[p].publish_calls = 1

\* C3: with retry=true and both publish attempts false, the SyncStatus written
\* is failed with item_count = number of fetched items, and the SyncResult is
\* a failure with the retries-exhausted message and the same item_count.
C3_RetriesExhausted ==
    \A p \in Platforms :
        LET t == task[p] IN
        (t.pc = "done" /\ call.retry /\ t.publish_calls = 2 /\ ~t.publish_success) =>
            /\ t.result = SyncResult(FALSE, p, Len(t.items), PublishFailedMsg)
            /\ t.written = SyncStatus(call.restaurant_id, p, "failed", now, Len(t.items))
            /\ StoredIfAccepted(p)

\* Reached: two failed publish attempts on a non-empty menu, row stored.
C3_Witness ==
    \E p \in Platforms :
        /\ task[p].pc = "done" /\ call.retry
        /\ task[p].publish_calls = 2 /\ ~task[p].publish_success
        /\ Len(task[p].items) = MaxItems
        /\ status_store[Key(p)].status = "failed"
        /\ status_store[Key(p)].item_count = MaxItems

\* C4: when the menu fetch returns absence the call returns
\* SyncResult(success=false, item_count=0), writes a failed SyncStatus with
\* item_count 0, calls neither format nor publish and does not fetch again.
C4_FetchAbsent ==
    \A p \in Platforms :
        LET t == task[p] IN
        (t.menu_data = "absent") =>
            /\ t.fetch_calls = 1 /\ t.format_calls = 0 /\ t.publish_calls = 0
            /\ t.written = SyncStatus(call.restaurant_id, p, "failed", now, 0)
            /\ StoredIfAccepted(p)
            /\ t.pc = "done" => t.result = SyncResult(FALSE, p, 0, FetchFailedMsg)

\* Reached: a call that ended on a fetch returning absence, row stored.
C4_Witness ==
    \E p \in Platforms :
        /\ task[p].pc = "done" /\ task[p].menu_data = "absent"
        /\ ~task[p].result.success
        /\ status_store[Key(p)].status = "failed"
        /\ status_store[Key(p)].item_count = 0

\* C5: when format returns none the call writes a failed SyncStatus whose
\* item_count is the number of fetched items, returns a failed SyncResult with
\* that item_count and never calls publish.
C5_FormatNone ==
    \A p \in Platforms :
        LET t == task[p] IN
        (t.format_calls = 1 /\ ~t.format_ok) =>
            /\ t.publish_calls = 0
            /\ t.written = SyncStatus(call.restaurant_id, p, "failed", now, Len(t.items))
            /\ StoredIfAccepted(p)
            /\ t.pc = "done" => t.result = SyncResult(FALSE, p, Len(t.items), FormatFailedMsg)

\* Reached: format returned none on a non-empty menu, row stored.
C5_Witness ==
    \E p \in Platforms :
        /\ task[p].pc = "done" /\ task[p].format_calls = 1 /\ ~task[p].format_ok
        /\ Len(task[p].items) = MaxItems
        /\ task[p].result.item_count = MaxItems
        /\ status_store[Key(p)].item_count = MaxItems

\* ===================================================================
\* Properties of sync_to_multiple_platforms
\* ===================================================================

InBatch == call.kind = "batch" /\ call.state /= "idle"

BatchPlatforms == Range(call.adapters)

RECURSIVE SumFetchCalls(_)
SumFetchCalls(S) ==
    IF S = {} THEN 0
    ELSE LET p == CHOOSE q \in S : TRUE
         IN  task[p].fetch_calls + SumFetchCalls(S \ {p})

\* The menu-source requests made for the call in progress.
TotalFetchCalls == SumFetchCalls(Platforms)

\* All platform tasks that have menu data hold the same item list.
SameItems ==
    \A p, q \in BatchPlatforms :
        (task[p].menu_data = "data" /\ task[q].menu_data = "data") =>
            task[p].items = task[q].items

AdapterFailed(p) ==
    /\ task[p].format_calls = 1
    /\ \/ ~task[p].format_ok
       \/ task[p].publish_calls >= 1 /\ ~task[p].publish_success

\* The outcome of p's own pipeline: fetch, format and last publish succeeded.
TaskSucceeded(p) ==
    /\ task[p].menu_data = "data"
    /\ task[p].format_ok
    /\ task[p].publish_calls >= 1 /\ task[p].publish_success

FailedResults == {i \in DOMAIN call.results : ~call.results[i].success}

BatchReturned == call.kind = "batch" /\ call.state = "returned"

C8_JoinBeforeReturn ==
    (call.kind = "batch" /\ call.state \in {"returned", "raised"}) =>
        \A p \in BatchPlatforms : task[p].pc \in {"done", "raised"}

\* C9: while a platform task of a batch is suspended (in a publish attempt,
\* which may never return, or in the retry delay) or has ended in failure,
\* every other task of the batch that is waiting for its fetch, its publish
\* or its delay can take its next step.
C9_OthersNotBlocked ==
    \A p, q \in Platforms :
        ( /\ InBatch /\ p /= q /\ {p, q} \subseteq BatchPlatforms
          /\ \/ task[p].pc \in {"publishing", "sleeping"}
             \/ task[p].pc = "done" /\ ~task[p].result.success
          /\ task[q].pc \in Live ) =>
            ENABLED (FetchReturns(q) \/ PublishReturns(q) \/ RetryDelayElapses(q))

\* Reached: the first platform of the map has failed its first publish and
\* is still inside its second publish call, and the second platform has
\* nevertheless written its status.
C9_Witness ==
    /\ InBatch /\ Len(call.adapters) = 2
    /\ task[call.adapters[1]].pc = "publishing"
    /\ task[call.adapters[1]].publish_calls = 2
    /\ task[call.adapters[2]].pc = "done"
    /\ task[call.adapters[2]].status_writes = 1
    /\ task[call.adapters[2]].write_outcome = "ok"

\* The SyncResult the fetch, format and publish outcomes of p call for.
ExpectedResult(p) ==
    LET t == task[p] IN
    IF t.menu_data = "absent" THEN SyncResult(FALSE, p, 0, FetchFailedMsg)
    ELSE IF ~t.format_ok THEN SyncResult(FALSE, p, Len(t.items), FormatFailedMsg)
    ELSE IF t.publish_success THEN SyncResult(TRUE, p, Len(t.items), "none")
    ELSE SyncResult(FALSE, p, Len(t.items), PublishFailedMsg)

\* C10: once the status write has been attempted, the call returns the
\* SyncResult its fetch, format and publish outcomes call for, whether the
\* store accepted the write or not, and raises nothing.
C10_ResultIndependentOfStatusWrite ==
    \A p \in Platforms :
        task[p].status_writes = 1 =>
            /\ task[p].pc = "done"
            /\ task[p].result = ExpectedResult(p)

\* ===================================================================
\* Properties of the status rows
\* ===================================================================

\* C14: last_sync_time is the time of the last successful sync of the pair: a
\* pass that ends in failure (fetch, format or publish) writes a row whose
\* last_sync_time is that of the row it replaces.
C14_FailureKeepsLastSyncTime ==
    [][\A k \in StatusKeys :
          (status_store'[k] /= status_store[k] /\ status_store'[k].status = "failed")
              => status_store'[k].last_sync_time = status_store[k].last_sync_time]_vars

\* ===================================================================
\* The repositories and the menu service client, called directly
\* ===================================================================

\* The error ids a caller of the error repository names.
ErrorIds == {1}

\* The times datetime.now(UTC) can have shown when a row was built.
ClockValues == {0}

\* The composite key of the sync error table.
ErrorKey(e) == <<e.error_id, e.created_at>>

\* DynamoDB put_item: the item replaces whatever the table holds under its key.
put_item(store, item) == {e \in store : ErrorKey(e) /= ErrorKey(item)} \cup {item}

\* What a repository method reports for an outcome of its DynamoDB request:
\* `value` on success, `fallback` when botocore raises ClientError (the except
\* clause), and the exception itself for anything else botocore raises
\* (EndpointConnectionError, ReadTimeoutError, ...: not ClientError).
Report(outcome, value, fallback) ==
    IF outcome = "ok" THEN value
    ELSE IF outcome = "client_error" THEN fallback
    ELSE "raised"

\* SyncStatusRepository.get_status
get_status(store, restaurant_id, platform, outcome) ==
    LET row == store[<<restaurant_id, platform>>]
        found == outcome = "ok" /\ row /= NoStatus
    IN  [report |-> Report(outcome, IF found THEN "found" ELSE "none", "none"),
         status |-> IF found THEN row ELSE NoStatus]

\* SyncStatusRepository.list_statuses_for_restaurant
list_statuses_for_restaurant(store, restaurant_id, outcome) ==
    LET rows == {k \in StatusKeys : k[1] = restaurant_id /\ store[k] /= NoStatus}
    IN  [report |-> Report(outcome, IF rows = {} THEN "empty" ELSE "list", "empty"),
         keys |-> IF outcome = "ok" THEN rows ELSE {}]

\* SyncStatusRepository.delete_status
delete_status(store, restaurant_id, platform, outcome) ==
    [store |-> IF outcome = "ok"
               THEN [store EXCEPT ![<<restaurant_id, platform>>] = NoStatus]
               ELSE store,
     report |-> Report(outcome, "true", "false")]

\* SyncErrorRepository.save_error
save_error(store, error, outcome) ==
    [store |-> IF outcome = "ok" THEN put_item(store, error) ELSE store,
     report |-> Report(outcome, "true", "false")]

\* SyncErrorRepository.get_error(error_id, created_at), called with the
\* positional arguments args: Python raises TypeError before the body runs
\* when an argument is missing.
get_error(store, args, outcome) ==
    IF Len(args) /= 2
    THEN [report |-> "type_error", error |-> NoError, requests |-> 0]
    ELSE LET rows == {e \in store : ErrorKey(e) = <<args[1], args[2]>>}
             found == outcome = "ok" /\ rows /= {}
         IN  [report |-> Report(outcome, IF found THEN "found" ELSE "none", "none"),
              error |-> IF found THEN CHOOSE e \in rows : TRUE ELSE NoError,
              requests |-> 1]

\* SyncErrorRepository.list_errors_for_restaurant; Limit (50 by default) is
\* above the number of rows the table holds here.
list_errors_for_restaurant(store, restaurant_id, outcome) ==
    LET rows == {e \in store : e.restaurant_id = restaurant_id}
    IN  [report |-> Report(outcome, IF rows = {} THEN "empty" ELSE "list", "empty"),
         errors |-> IF outcome = "ok" THEN rows ELSE {}]

\* SyncErrorRepository.update_retry_count(error_id, created_at, retry_count),
\* called with the positional arguments args. DynamoDB update_item sets the
\* attribute on the item under the key, and creates the item, with nothing
\* but its key and retry_count, when the table holds none.
update_retry_count(store, args, outcome) ==
    IF Len(args) /= 3
    THEN [store |-> store, report |-> "type_error", requests |-> 0]
    ELSE LET rows == {e \in store : ErrorKey(e) = <<args[1], args[2]>>}
             item == IF rows = {}
                     THEN SyncError(args[1], args[2], "", "", "", NoSnapshot, args[3])
                     ELSE [(CHOOSE e \in rows : TRUE) EXCEPT !.retry_count = args[3]]
         IN  [store |-> IF outcome = "ok" THEN put_item(store, item) ELSE store,
              report |-> Report(outcome, "true", "false"),
              requests |-> 1]

\* What the menu service can answer to one request: a 2xx response with a
\* well-formed body, a 4xx/5xx response (raise_for_status raises
\* HTTPStatusError), no response (RequestError: connection, timeout), or a
\* 2xx response whose body is not the JSON the client expects.
ResponseOutcomes == {"ok", "http_status_error", "request_error", "malformed"}

\* MenuServiceClient.get_menu_items: the except clause covers HTTPStatusError
\* and RequestError; response.json(), Decimal(...) and MenuItem(**item_data)
\* raise other exceptions on a malformed body.
get_menu_items(outcome) ==
    IF outcome = "ok" THEN "list"
    ELSE IF outcome \in {"http_status_error", "request_error"} THEN "none"
    ELSE "raised"

\* MenuServiceClient.get_categories: the same error handling.
get_categories(outcome) ==
    IF outcome = "ok" THEN "list"
    ELSE IF outcome \in {"http_status_error", "request_error"} THEN "none"
    ELSE "raised"

\* MenuServiceClient.get_menu_data: the categories are requested only once
\* the items have arrived.
get_menu_data(items_outcome, categories_outcome) ==
    LET items == get_menu_items(items_outcome) IN
    IF items /= "list"
    THEN [report |-> items, requests |-> 1]
    ELSE LET categories == get_categories(categories_outcome) IN
         [report |-> IF categories = "list" THEN "data" ELSE categories,
          requests |-> 2]

\* The rows a caller can hand to save_status.
SampleStatuses ==
    {SyncStatus(r, p, s, t, n) : r \in Restaurants, p \in Platforms,
                                 s \in {"completed", "failed"}, t \in ClockValues,
                                 n \in 0..MaxItems}

\* The rows a caller can hand to save_error.
SampleErrors ==
    {SyncError(id, t, r, p, FetchFailedMsg, NoSnapshot, 0) :
        id \in ErrorIds, t \in ClockValues, r \in Restaurants, p \in Platforms}

StatusOp(name, outcome, report, status, replaced) ==
    [name |-> name, outcome |-> outcome, outcome2 |-> "none", requests |-> 1,
     report |-> report, status |-> status, replaced |-> replaced, error |-> NoError,
     menu_items |-> NotGiven, menu_categories |-> NotGiven]

ErrorOp(name, outcome, report, requests, error) ==
    [name |-> name, outcome |-> outcome, outcome2 |-> "none", requests |-> requests,
     report |-> report, status |-> NoStatus, replaced |-> NoStatus, error |-> error,
     menu_items |-> NotGiven, menu_categories |-> NotGiven]

orchestrator_vars == <<call, task, now, calls>>

GetStatus(r, p, outcome) ==
    /\ LET g == get_status(status_store, r, p, outcome)
       IN  op' = StatusOp("get_status", outcome, g.report, g.status, NoStatus)
    /\ UNCHANGED <<orchestrator_vars, status_store, error_store, next_uuid, incr, operation_store, adapter, handler>>

SaveStatus(status, outcome) ==
    /\ LET sv == save_status(status_store, status, outcome)
       IN  /\ status_store' = sv.store
           /\ op' = StatusOp("save_status", outcome,
                             IF sv.raised THEN "raised"
                             ELSE IF sv.returned THEN "true" ELSE "false",
                             status, status_store[<<status.restaurant_id, status.platform>>])
    /\ UNCHANGED <<orchestrator_vars, error_store, next_uuid, incr, operation_store, adapter, handler>>

ListStatuses(r, outcome) ==
    /\ LET l == list_statuses_for_restaurant(status_store, r, outcome)
       IN  op' = StatusOp("list_statuses_for_restaurant", outcome, l.report,
                          NoStatus, NoStatus)
    /\ UNCHANGED <<orchestrator_vars, status_store, error_store, next_uuid, incr, operation_store, adapter, handler>>

DeleteStatus(r, p, outcome) ==
    /\ LET d == delete_status(status_store, r, p, outcome)
       IN  /\ status_store' = d.store
           /\ op' = StatusOp("delete_status", outcome, d.report, NoStatus,
                             status_store[<<r, p>>])
    /\ UNCHANGED <<orchestrator_vars, error_store, next_uuid, incr, operation_store, adapter, handler>>

SaveError(error, outcome) ==
    /\ LET sv == save_error(error_store, error, outcome)
       IN  /\ error_store' = sv.store
           /\ op' = ErrorOp("save_error", outcome, sv.report, 1, error)
    /\ UNCHANGED <<orchestrator_vars, status_store, next_uuid, incr, operation_store, adapter, handler>>

GetError(error_id, created_at, outcome) ==
    /\ LET g == get_error(error_store, <<error_id, created_at>>, outcome)
       IN  op' = ErrorOp("get_error", outcome, g.report, g.requests, g.error)
    /\ UNCHANGED <<orchestrator_vars, status_store, error_store, next_uuid, incr, operation_store, adapter, handler>>

ListErrors(r, outcome) ==
    /\ LET l == list_errors_for_restaurant(error_store, r, outcome)
       IN  op' = ErrorOp("list_errors_for_restaurant", outcome, l.report, 1, NoError)
    /\ UNCHANGED <<orchestrator_vars, status_store, error_store, next_uuid, incr, operation_store, adapter, handler>>

UpdateRetryCount(error_id, created_at, retry_count, outcome) ==
    /\ LET u == update_retry_count(error_store, <<error_id, created_at, retry_count>>, outcome)
       IN  /\ error_store' = u.store
           /\ op' = ErrorOp("update_retry_count", outcome, u.report, u.requests, NoError)
    /\ UNCHANGED <<orchestrator_vars, status_store, next_uuid, incr, operation_store, adapter, handler>>

\* A caller awaits get_menu_data(restaurant_id); the second request has an
\* outcome only when it is sent.
GetMenuData(items_outcome, categories_outcome) ==
    /\ LET g == get_menu_data(items_outcome, categories_outcome)
       IN  op' = [name |-> "get_menu_data", outcome |-> items_outcome,
                  outcome2 |-> categories_outcome, requests |-> g.requests,
                  report |-> g.report, status |-> NoStatus, replaced |-> NoStatus,
                  error |-> NoError]
    /\ UNCHANGED <<orchestrator_vars, status_store, error_store, next_uuid, incr, operation_store, adapter, handler>>

ClientsNext ==
    \/ \E r \in Restaurants, p \in Platforms, o \in StoreOutcomes : GetStatus(r, p, o)
    \/ \E s \in SampleStatuses, o \in StoreOutcomes : SaveStatus(s, o)
    \/ \E r \in Restaurants, o \in StoreOutcomes : ListStatuses(r, o)
    \/ \E r \in Restaurants, p \in Platforms, o \in StoreOutcomes : DeleteStatus(r, p, o)
    \/ \E e \in SampleErrors, o \in StoreOutcomes : SaveError(e, o)
    \/ \E id \in ErrorIds, t \in ClockValues, o \in StoreOutcomes : GetError(id, t, o)
    \/ \E r \in Restaurants, o \in StoreOutcomes : ListErrors(r, o)
    \/ \E id \in ErrorIds, t \in ClockValues, n \in 0..1, o \in StoreOutcomes :
          UpdateRetryCount(id, t, n, o)
    \/ \E o1 \in ResponseOutcomes :
          \E o2 \in (IF get_menu_items(o1) = "list" THEN ResponseOutcomes ELSE {"not_sent"}) :
             GetMenuData(o1, o2)

SpecClients == Init /\ [][ClientsNext]_vars

StoreOps ==
    {"get_status", "save_status", "list_statuses_for_restaurant", "delete_status",
     "save_error", "get_error", "list_errors_for_restaurant", "update_retry_count"}

\* C11: whatever makes a request of the Status Store or the Error Store fail,
\* the repository method reports it as false, absence or an empty list and
\* raises nothing.
C11_StoreFailuresAreReported ==
    (op.name \in StoreOps /\ op.outcome /= "ok") => op.report \in {"false", "none", "empty"}

\* C12: get_menu_data returns (items, categories) when both requests
\* succeed and absence for every failure of either request (HTTP error,
\* network error, malformed body); it raises nothing, and after a failed items
\* request it sends no second request.
C12_MenuDataOrAbsence ==
    op.name = "get_menu_data" =>
        /\ op.report \in {"data", "none"}
        /\ op.report = "data" <=> (op.outcome = "ok" /\ op.outcome2 = "ok")
        /\ op.outcome /= "ok" => op.requests = 1

\* C13: the status table holds one row per (restaurant_id, platform), stored
\* under its own key; a row changes only by an accepted save_status, which
\* leaves exactly the row it was given, in every field, or by delete_status,
\* which leaves none: the row is the one of the last write.
C13_RowIsLastWrite ==
    /\ [](\A k \in StatusKeys :
             status_store[k] /= NoStatus =>
                 status_store[k].restaurant_id = k[1] /\ status_store[k].platform = k[2])
    /\ [][\A k \in StatusKeys :
             LET written == op'.name = "save_status" /\ op'.outcome = "ok"
                            /\ k = <<op'.status.restaurant_id, op'.status.platform>>
                 deleted == op'.name = "delete_status" /\ op'.outcome = "ok"
                            /\ status_store'[k] = NoStatus
             IN  /\ written => status_store'[k] = op'.status
                 /\ status_store'[k] /= status_store[k] => (written \/ deleted)]_vars

\* Reached: an accepted save_status has replaced a row that differed from the
\* new one in status and in item_count.
C13_Witness ==
    /\ op.name = "save_status" /\ op.outcome = "ok"
    /\ op.replaced /= NoStatus
    /\ op.replaced.status /= op.status.status
    /\ op.replaced.item_count /= op.status.item_count
    /\ status_store[<<op.status.restaurant_id, op.status.platform>>] = op.status

\* ===================================================================
\* The error service (services/error_service.py)
\* ===================================================================

MaxRecords == 1     \* record_sync_error calls in one behaviour of the error service

\* A Decimal and the string str() makes of it.
Decimal(n) == [type |-> "Decimal", value |-> n]

str(d) == [type |-> "str", value |-> d.value]

\* models/menu_models.py MenuItem and Category, by the fields that tell two
\* of them apart and the price.
MenuItem(i) == [id |-> i, price |-> Decimal(i), available |-> CatalogueItem(i).available]

Category(i) == [id |-> i, sort_order |-> i]

\* ErrorService._serialize_menu_item: the fields are copied, the price is
\* converted with str().
serialize_menu_item(item) ==
    [id |-> item.id, price |-> str(item.price), available |-> item.available]

\* ErrorService._serialize_category
serialize_category(category) == [id |-> category.id, sort_order |-> category.sort_order]

\* ErrorService._create_menu_snapshot
create_menu_snapshot(items, categories) ==
    [present |-> TRUE,
     items |-> [i \in DOMAIN items |-> serialize_menu_item(items[i])],
     categories |-> [i \in DOMAIN categories |-> serialize_category(categories[i])]]

\* What a caller of record_sync_error can pass as menu_items: None, an empty
\* list, or the restaurant's whole catalogue.
MenuItemLists == {NotGiven, Given(<<>>), Given([i \in 1..MaxItems |-> MenuItem(i)])}

\* What a caller can pass as menu_categories: None, an empty list, or the
\* categories.
CategoryLists == {NotGiven, Given(<<>>), Given([i \in 1..MaxItems |-> Category(i)])}

\* The menu a caller passes along: nothing, or the whole menu.
MenuArguments ==
    {<<NotGiven, NotGiven>>,
     <<Given([i \in 1..MaxItems |-> MenuItem(i)]), Given([i \in 1..MaxItems |-> Category(i)])>>}

\* Variant: a snapshot is made as soon as one of the two lists is given.
record_sync_error_either(store, uuid, time, restaurant_id, platform, error_details, menu_items, menu_categories, outcome) ==
    LET menu_snapshot == IF menu_items.given \/ menu_categories.given
                         THEN create_menu_snapshot(menu_items.list, menu_categories.list)
                         ELSE NoSnapshot
        error == SyncError(uuid, time, restaurant_id, platform, error_details,
                           menu_snapshot, 0)
        sv == save_error(store, error, outcome)
    IN  [store |-> sv.store, error |-> error,
         report |-> IF sv.report = "true" THEN "id"
                    ELSE IF sv.report = "false" THEN "none" ELSE "raised"]

\* ErrorService.record_sync_error: a snapshot is made when both menu_items
\* and menu_categories are given; a SyncError with a fresh id, the current
\* time and retry_count 0 is handed to save_error; the id is returned when
\* save_error returns True, None when it returns False, and what save_error
\* raises is not caught.
record_sync_error(store, uuid, time, restaurant_id, platform, error_details, menu_items, menu_categories, outcome) ==
    LET menu_snapshot == IF menu_items.given /\ menu_categories.given
                         THEN create_menu_snapshot(menu_items.list, menu_categories.list)
                         ELSE NoSnapshot
        error == SyncError(uuid, time, restaurant_id, platform, error_details,
                           menu_snapshot, 0)
        sv == save_error(store, error, outcome)
    IN  [store |-> sv.store, error |-> error,
         report |-> IF sv.report = "true" THEN "id"
                    ELSE IF sv.report = "false" THEN "none" ELSE "raised"]

\* ErrorService.get_errors_for_restaurant: the rows of the restaurant, of one
\* platform when a platform is given ("" stands for None).
get_errors_for_restaurant(store, restaurant_id, platform, outcome) ==
    LET l == list_errors_for_restaurant(store, restaurant_id, outcome)
        errors == IF platform /= "" THEN {e \in l.errors : e.platform = platform}
                  ELSE l.errors
    IN  [report |-> IF l.report = "raised" THEN "raised"
                    ELSE IF errors = {} THEN "empty" ELSE "list",
         errors |-> errors]

\* `async def increment_retry_count(self, error_id: str)`: the parameters a
\* caller can bind.
IncrementParams == <<"error_id">>

\* The invocation inv has ended with `result`.
Finished(inv, result) ==
    [inv EXCEPT !.pc = IF result \in {"true", "false"} THEN "returned" ELSE "raised",
                !.result = result]

\* Variant: the method has the parameters (error_id, created_at) and hands the
\* whole key to get_error and update_retry_count.
increment_retry_count_keyed(inv, args, store, outcome) ==
    IF inv.pc = "idle"
    THEN IF Len(args) /= 2
         THEN [inv |-> Finished(inv, "type_error"), store |-> store]
         ELSE LET g == get_error(store, <<args[1], args[2]>>, outcome)
                  i1 == [inv EXCEPT !.reads = g.requests]
              IN  IF g.report = "found"
                  THEN [inv |-> [i1 EXCEPT !.pc = "writing",
                                           !.retry_count = g.error.retry_count],
                        store |-> store]
                  ELSE [inv |-> Finished(i1, IF g.report = "none" THEN "false"
                                             ELSE g.report),
                        store |-> store]
    ELSE LET u == update_retry_count(store, <<inv.error_id, inv.created_at,
                                              inv.retry_count + 1>>, outcome)
         IN  [inv |-> Finished([inv EXCEPT !.writes = u.requests], u.report),
              store |-> u.store]

\* ErrorService.increment_retry_count, from its call to the read and from the
\* read to the write. A call binds its arguments to IncrementParams (TypeError
\* when they do not fit); the read is get_error(error_id) and the write
\* update_retry_count(error_id, new_retry_count), as the method passes them.
increment_retry_count(inv, args, store, outcome) ==
    IF inv.pc = "idle"
    THEN IF Len(args) /= Len(IncrementParams)
         THEN [inv |-> Finished(inv, "type_error"), store |-> store]
         ELSE LET g == get_error(store, <<args[1]>>, outcome)
                  i1 == [inv EXCEPT !.reads = g.requests]
              IN  IF g.report = "found"
                  THEN [inv |-> [i1 EXCEPT !.pc = "writing",
                                           !.retry_count = g.error.retry_count],
                        store |-> store]
                  ELSE [inv |-> Finished(i1, IF g.report = "none" THEN "false"
                                             ELSE g.report),
                        store |-> store]
    ELSE LET u == update_retry_count(store, <<inv.error_id, inv.retry_count + 1>>,
                                     outcome)
         IN  [inv |-> Finished([inv EXCEPT !.writes = u.requests], u.report),
              store |-> u.store]

\* A caller awaits record_sync_error(restaurant_id, platform, error_details,
\* menu_items, menu_categories).
RecordSyncError(r, p, details, menu_items, menu_categories, outcome) ==
    /\ next_uuid <= MaxRecords
    /\ LET rec == record_sync_error(error_store, next_uuid, now, r, p, details,
                                    menu_items, menu_categories, outcome)
       IN  /\ error_store' = rec.store
           /\ op' = [ErrorOp("record_sync_error", outcome, rec.report, 1, rec.error)
                        EXCEPT !.menu_items = menu_items,
                               !.menu_categories = menu_categories]
    /\ next_uuid' = next_uuid + 1
    /\ UNCHANGED <<orchestrator_vars, status_store, incr, operation_store, adapter, handler>>

\* A caller awaits get_errors_for_restaurant(restaurant_id, platform).
GetErrorsForRestaurant(r, p, outcome) ==
    /\ LET l == get_errors_for_restaurant(error_store, r, p, outcome)
       IN  op' = ErrorOp("get_errors_for_restaurant", outcome, l.report, 1, NoError)
    /\ UNCHANGED <<orchestrator_vars, status_store, error_store, next_uuid, incr, operation_store, adapter, handler>>

\* The row the arguments of an increment_retry_count call name, if the table
\* holds it: the error id alone identifies a row, ids being unique.
Target(args) ==
    LET rows == {e \in error_store : e.error_id = args[1]}
    IN  IF rows = {} THEN NoError ELSE CHOOSE e \in rows : TRUE

\* An invocation of increment_retry_count takes its next step: the i-th
\* invocation is called, with the error id alone or with the key of the
\* error, or it goes from its read to its write. Other invocations, of other
\* requests or processes, can take steps in between.
IncrementRetryCount(i) ==
    /\ incr[i].pc \in {"idle", "writing"}
    /\ \A j \in 1..(i - 1) : incr[j].pc /= "idle"
    /\ \E id \in 0..MaxRecords, outcome \in StoreOutcomes :
       \E args \in (IF incr[i].pc = "idle" THEN {<<id>>, <<id, now>>} ELSE {<<id>>}) :
          LET called == incr[i].pc = "idle"
              others == \E j \in 1..MaxIncrements : j /= i /\ incr[j].pc = "writing"
              inv == IF called
                     THEN [incr[i] EXCEPT !.error_id = args[1], !.created_at = now,
                                          !.target = Target(args),
                                          !.overlapped = others]
                     ELSE incr[i]
              step == increment_retry_count(inv, args, error_store, outcome)
          IN  /\ (~called) => id = 0
              /\ incr' = [j \in 1..MaxIncrements |->
                            IF j = i THEN step.inv
                            ELSE IF called /\ incr[j].pc = "writing"
                                 THEN [incr[j] EXCEPT !.overlapped = TRUE]
                                 ELSE incr[j]]
              /\ error_store' = step.store
    /\ UNCHANGED <<orchestrator_vars, status_store, next_uuid, op, handler,
                   operation_store, adapter>>

ErrorsNext ==
    \/ \E r \in Restaurants, p \in Platforms, menu \in MenuArguments,
          o \in StoreOutcomes :
          RecordSyncError(r, p, FetchFailedMsg, menu[1], menu[2], o)
    \/ \E r \in Restaurants, p \in Platforms \cup {""}, o \in StoreOutcomes :
          GetErrorsForRestaurant(r, p, o)
    \/ \E i \in 1..MaxIncrements : IncrementRetryCount(i)

SpecErrors == Init /\ [][ErrorsNext]_vars

\* The error service recording and listing, with every combination of menu
\* arguments.
RecordsNext ==
    \/ \E r \in Restaurants, p \in Platforms, items \in MenuItemLists,
          categories \in CategoryLists, o \in StoreOutcomes,
          details \in {FetchFailedMsg, PublishFailedMsg} :
          RecordSyncError(r, p, details, items, categories, o)
    \/ \E r \in Restaurants, p \in Platforms \cup {""}, o \in StoreOutcomes :
          GetErrorsForRestaurant(r, p, o)

SpecRecords == Init /\ [][RecordsNext]_vars

\* The invocations of increment_retry_count that have ended.
Ended == {i \in 1..MaxIncrements : incr[i].pc \in {"returned", "raised"}}

ReturnedTrue(e) ==
    {i \in 1..MaxIncrements : incr[i].result = "true" /\ incr[i].error_id = e.error_id}

\* C16: increment_retry_count is a read followed by a write: an invocation on
\* a stored error reads it; the stored retry_count never exceeds the number of
\* invocations that returned true, and equals it when no two invocations
\* overlapped.
C16_ReadThenWriteUnderCount ==
    /\ \A i \in Ended : incr[i].target /= NoError => incr[i].reads = 1
    /\ \A e \in error_store :
          /\ e.retry_count <= Cardinality(ReturnedTrue(e))
          /\ (\A i \in 1..MaxIncrements : incr[i].pc /= "writing" /\ ~incr[i].overlapped)
                => e.retry_count = Cardinality(ReturnedTrue(e))

\* C17: increment_retry_count(error_id, created_at) on a stored error with
\* retry_count n reads it by its key, writes n+1 under the same key and returns
\* true when the update succeeds, false when it fails.
C17_IncrementWritesNextCount ==
    \A i \in Ended :
        incr[i].target /= NoError =>
            /\ incr[i].result \in {"true", "false"}
            /\ incr[i].reads = 1
            /\ incr[i].result = "true" =>
                  /\ incr[i].writes = 1
                  /\ \E e \in error_store :
                        /\ ErrorKey(e) = ErrorKey(incr[i].target)
                        /\ e.retry_count >= incr[i].retry_count + 1

\* C18: increment_retry_count on an error id the Error Store does not hold
\* returns false and writes nothing: no row appears under that id.
C18_IncrementOfUnknownError ==
    \A i \in Ended :
        incr[i].target = NoError =>
            /\ incr[i].result = "false"
            /\ incr[i].writes = 0
            /\ \A e \in error_store : e.restaurant_id /= ""

\* C19: record_sync_error returns the new error id when the Error Store
\* accepts the write, and then the SyncError is stored; it returns none when
\* the write fails, and then no SyncError with the new id is stored; it raises
\* nothing.
C19_RecordReturnsIdOrNone ==
    op.name = "record_sync_error" =>
        /\ op.report \in {"id", "none"}
        /\ op.outcome = "ok" => (op.report = "id" /\ op.error \in error_store)
        /\ op.outcome /= "ok" =>
              (op.report = "none"
               /\ \A e \in error_store : e.error_id /= op.error.error_id)

\* ===================================================================
\* The handlers (handlers/event_handler.py, handlers/api_handler.py)
\* ===================================================================

MaxHandlerCalls == 1   \* orchestrator calls the handlers start in one behaviour

\* A platform no adapter is configured for.
UnconfiguredPlatform == "grubhub"

SyncKinds == {"menu_changed", "full_refresh", "platform_sync"}

\* The handler loops over the results and awaits record_sync_error for every
\* failed one, without menu snapshot; an exception raised by a call ends the
\* loop and the handler. outcomes[i] is what the store does with the write
\* for results[i].
RECURSIVE RecordFailures(_, _, _, _, _)
RecordFailures(results, outcomes, restaurant_id, time, acc) ==
    IF results = <<>> \/ acc.raised THEN acc
    ELSE IF Head(results).success
    THEN RecordFailures(Tail(results), Tail(outcomes), restaurant_id, time, acc)
    ELSE LET rec == record_sync_error(acc.store, acc.uuid, time, restaurant_id,
                                      Head(results).platform,
                                      Head(results).error_message, NotGiven, NotGiven,
                                      Head(outcomes))
         IN  RecordFailures(Tail(results), Tail(outcomes), restaurant_id, time,
                [store |-> rec.store, uuid |-> acc.uuid + 1,
                 accepted |-> acc.accepted + (IF rec.report = "id" THEN 1 ELSE 0),
                 rejected |-> acc.rejected + (IF rec.report = "id" THEN 0 ELSE 1),
                 raised |-> rec.report = "raised"])

\* Variant: a full refresh succeeds when some platform succeeded.
ResponseAnySuccess(kind, results) ==
    LET successes == {i \in DOMAIN results : results[i].success} IN
    IF kind = "menu_changed"
    THEN (IF successes /= {} THEN "true" ELSE "false")
    ELSE IF successes /= {} THEN "200 success"
    ELSE IF kind = "platform_sync" THEN "500" ELSE "200 failure"

\* What the handler answers once the errors are recorded.
Response(kind, results) ==
    LET successes == {i \in DOMAIN results : results[i].success} IN
    IF kind = "menu_changed"
    THEN (IF successes /= {} THEN "true" ELSE "false")
    ELSE IF kind = "retry_error"
    THEN (IF successes /= {} THEN "200 success" ELSE "200 failure")
    ELSE IF kind = "full_refresh"
    THEN (IF successes = DOMAIN results THEN "200 success"
          ELSE IF successes /= {} THEN "207" ELSE "200 failure")
    ELSE (IF successes /= {} THEN "200 success" ELSE "500")

\* The sync attempts of the call that did not succeed: the coroutine returned
\* a failed SyncResult or raised.
FailedAttempts ==
    {q \in Range(call.adapters) :
        task[q].pc = "raised" \/ (task[q].pc = "done" /\ ~task[q].result.success)}

\* The sync attempts of the call that returned a successful SyncResult.
SucceededAttempts ==
    {q \in Range(call.adapters) : task[q].pc = "done" /\ task[q].result.success}

\* A handler can start when none is running.
HandlerCanStart ==
    /\ handler.state \in {"idle", "done"}
    /\ call.state = "idle"

\* The handler awaits sync_to_multiple_platforms over the configured adapters
\* with retry=True.
StartBatch(r, h) ==
    /\ calls < MaxHandlerCalls
    /\ call' = [kind |-> "batch", restaurant_id |-> r, adapters |-> ConfiguredAdapters,
                retry |-> TRUE, state |-> "running", results |-> <<>>]
    /\ task' = BatchTasks(ConfiguredAdapters)
    /\ calls' = calls + 1
    /\ now' = now + 1
    /\ handler' = h

\* The handler awaits sync_to_platform with retry=True.
StartSingle(r, p, h) ==
    /\ calls < MaxHandlerCalls
    /\ call' = [kind |-> "single", restaurant_id |-> r, adapters |-> <<p>>,
                retry |-> TRUE, state |-> "running", results |-> <<>>]
    /\ task' = [q \in Platforms |-> IF q = p THEN BeginTask ELSE InitTask]
    /\ calls' = calls + 1
    /\ now' = now + 1
    /\ handler' = h

\* The handler answers without a sync.
Answer(h) ==
    /\ handler' = h
    /\ UNCHANGED orchestrator_vars

\* The handler record of a request that awaits the orchestrator.
Awaiting(kind, key, event, target, reads) ==
    [IdleHandler EXCEPT !.kind = kind, !.state = "awaiting", !.key = key,
                        !.event = event, !.target = target, !.reads = reads]

\* The handler record of a request answered without a sync.
Answered(kind, key, event, response, reads) ==
    [IdleHandler EXCEPT !.kind = kind, !.state = "done", !.key = key,
                        !.event = event, !.response = response, !.reads = reads]

\* create_app(api_keys=...): the configured allow-list.
ApiKeys == {"key_1"}

\* What a request can carry in its X-API-Key header: nothing, the empty
\* string, a listed key, an unlisted key.
PresentedKeys == {Missing, "", "key_1", "key_2"}

\* APIKeyValidator.validate
validate(api_keys, api_key) == api_key \in api_keys

\* Variant: no validator is injected (the `validator is None` branch), so any
\* non-empty key passes.
get_api_key_from_header_unvalidated(x_api_key, api_keys) ==
    IF x_api_key \in {Missing, ""} THEN "401" ELSE "ok"

\* get_api_key_from_header as validate_api_key calls it, with the validator
\* of the application: 401 for a missing or empty header, 401 for a key the
\* validator does not accept.
get_api_key_from_header(x_api_key, api_keys) ==
    IF x_api_key \in {Missing, ""} THEN "401"
    ELSE IF ~validate(api_keys, x_api_key) THEN "401"
    ELSE "ok"

\* The Depends(validate_api_key) of every admin route.
validate_api_key(x_api_key) == get_api_key_from_header(x_api_key, ApiKeys)

\* The EventBridge events delivered: source and detail-type are right or
\* not, and each field of the detail is there or not.
Sources == {"com.restaurant.menu", "com.restaurant.orders", "aws.events"}

DetailTypes == {"MenuChanged", "OrderPlaced"}

Events ==
    [source : Sources, detail_type : DetailTypes,
     detail : [restaurant_id : Restaurants \cup {Missing},
               event_type : {"menu.updated", Missing},
               timestamp : {"2024-01-01T00:00:00Z", Missing}]]

\* MenuChangedEvent(**fields): pydantic raises ValidationError when one of the
\* three required str fields is not given.
MenuChangedEvent(fields) ==
    IF Missing \in {fields.restaurant_id, fields.event_type, fields.timestamp}
    THEN [valid |-> FALSE, restaurant_id |-> "", event_type |-> "", timestamp |-> ""]
    ELSE [valid |-> TRUE, restaurant_id |-> fields.restaurant_id,
          event_type |-> fields.event_type, timestamp |-> fields.timestamp]

\* parse_eventbridge_event: the detail is validated, ValidationError gives None.
parse_eventbridge_event(event) == MenuChangedEvent(event.detail)

\* dict.get(key, default)
Get(value, default) == IF value = Missing THEN default ELSE value

\* lambda_handler.handle_eventbridge_event builds the MenuChangedEvent from
\* the detail with a default for every field that is not there.
lambda_menu_event(event) ==
    MenuChangedEvent([restaurant_id |-> Get(event.detail.restaurant_id, ""),
                      event_type |-> Get(event.detail.event_type, "menu.updated"),
                      timestamp |-> Get(event.detail.timestamp, "")])

\* EventHandler.handle_menu_changed, up to its await of the batch.
HandleMenuChanged(r) ==
    /\ HandlerCanStart
    /\ StartBatch(r, Awaiting("menu_changed", Missing, NoEvent, NoError, 0))
    /\ UNCHANGED <<status_store, error_store, next_uuid, incr, operation_store, adapter, op>>

\* lambda_handler.handle_eventbridge_event, up to the await inside
\* handle_menu_changed: 400 for another source or detail-type; an exception of
\* the MenuChangedEvent constructor is caught and answered 500.
LambdaHandleEventbridgeEvent(event) ==
    /\ HandlerCanStart
    /\ IF event.source /= "com.restaurant.menu" \/ event.detail_type /= "MenuChanged"
       THEN Answer(Answered("eventbridge_event", Missing, event, "400", 0))
       ELSE LET menu_event == lambda_menu_event(event) IN
            IF ~menu_event.valid
            THEN Answer(Answered("eventbridge_event", Missing, event, "500", 0))
            ELSE StartBatch(menu_event.restaurant_id,
                            Awaiting("menu_changed", Missing, event, NoError, 0))
    /\ UNCHANGED <<status_store, error_store, next_uuid, incr, operation_store, adapter, op>>

\* EventHandler.handle_eventbridge_event, up to the await inside
\* handle_menu_changed: 400 when the detail does not parse.
HandleEventbridgeEvent(event) ==
    /\ HandlerCanStart
    /\ LET menu_event == parse_eventbridge_event(event) IN
       IF ~menu_event.valid
       THEN Answer(Answered("eventbridge_event", Missing, event, "400", 0))
       ELSE StartBatch(menu_event.restaurant_id,
                       Awaiting("menu_changed", Missing, event, NoError, 0))
    /\ UNCHANGED <<status_store, error_store, next_uuid, incr, operation_store, adapter, op>>

\* GET /admin/sync-status/{restaurant_id}: the key is validated, then the
\* rows of the restaurant are listed.
GetSyncStatus(r, key, outcome) ==
    /\ HandlerCanStart
    /\ IF validate_api_key(key) = "401"
       THEN Answer(Answered("sync_status", key, NoEvent, "401", 0))
       ELSE LET l == list_statuses_for_restaurant(status_store, r, outcome) IN
            Answer(Answered("sync_status", key, NoEvent,
                            IF l.report = "raised" THEN "raised" ELSE "200", 1))
    /\ UNCHANGED <<status_store, error_store, next_uuid, incr, operation_store, adapter, op>>

\* GET /admin/errors/{restaurant_id}: the key is validated, then the errors
\* of the restaurant are listed.
GetErrors(r, p, key, outcome) ==
    /\ HandlerCanStart
    /\ IF validate_api_key(key) = "401"
       THEN Answer(Answered("errors", key, NoEvent, "401", 0))
       ELSE LET l == get_errors_for_restaurant(error_store, r, p, outcome) IN
            Answer(Answered("errors", key, NoEvent,
                            IF l.report = "raised" THEN "raised" ELSE "200", 1))
    /\ UNCHANGED <<status_store, error_store, next_uuid, incr, operation_store, adapter, op>>

\* trigger_full_refresh, up to its await of the batch.
TriggerFullRefresh(r, key) ==
    /\ HandlerCanStart
    /\ IF validate_api_key(key) = "401"
       THEN Answer(Answered("full_refresh", key, NoEvent, "401", 0))
       ELSE StartBatch(r, Awaiting("full_refresh", key, NoEvent, NoError, 0))
    /\ UNCHANGED <<status_store, error_store, next_uuid, incr, operation_store, adapter, op>>

\* Variant: the platform is not looked up among the configured adapters
\* before the sync is started.
TriggerPlatformSyncUnchecked(r, p, key) ==
    /\ HandlerCanStart
    /\ IF validate_api_key(key) = "401"
       THEN Answer(Answered("platform_sync", key, NoEvent, "401", 0))
       ELSE StartSingle(r, p, Awaiting("platform_sync", key, NoEvent, NoError, 0))
    /\ UNCHANGED <<status_store, error_store, next_uuid, incr, operation_store, adapter, op>>

\* trigger_platform_sync, up to its await of sync_to_platform; 404 when no
\* adapter is configured for the platform.
TriggerPlatformSync(r, p, key) ==
    /\ HandlerCanStart
    /\ IF validate_api_key(key) = "401"
       THEN Answer(Answered("platform_sync", key, NoEvent, "401", 0))
       ELSE IF p \in Range(ConfiguredAdapters)
       THEN StartSingle(r, p, Awaiting("platform_sync", key, NoEvent, NoError, 0))
       ELSE Answer(Answered("platform_sync", key, NoEvent, "404", 0))
    /\ UNCHANGED <<status_store, error_store, next_uuid, incr, operation_store, adapter, op>>

\* The lookup of retry_error:
\* get_errors_for_restaurant(restaurant_id="", limit=100), no platform filter.
retry_lookup(store, outcome) == get_errors_for_restaurant(store, "", "", outcome)

\* retry_error, up to its await of sync_to_platform: the error is looked for
\* among the rows the lookup returns.
RetryError(error_id, key, outcome) ==
    /\ HandlerCanStart
    /\ IF validate_api_key(key) = "401"
       THEN Answer([Answered("retry_error", key, NoEvent, "401", 0)
                       EXCEPT !.error_id = error_id])
       ELSE
       LET l == retry_lookup(error_store, outcome)
           found == {e \in l.errors : e.error_id = error_id}
           answer(response) == [Answered("retry_error", key, NoEvent, response, 1)
                                   EXCEPT !.error_id = error_id]
       IN  IF l.report = "raised" THEN Answer(answer("raised"))
           ELSE IF found = {} THEN Answer(answer("404"))
           ELSE LET error == CHOOSE e \in found : TRUE IN
                IF error.platform \notin Range(ConfiguredAdapters)
                THEN Answer(answer("404"))
                ELSE StartSingle(error.restaurant_id, error.platform,
                                 [Awaiting("retry_error", key, NoEvent, error, 1)
                                     EXCEPT !.error_id = error_id])
    /\ UNCHANGED <<status_store, error_store, next_uuid, incr, operation_store, adapter, op>>

\* The awaited orchestrator call has ended and its coroutines with it: the
\* handler runs on to its end. An exception of the call ends the handler;
\* otherwise the sync handlers record the failed results, and retry_error
\* awaits increment_retry_count(error_id=..., created_at=...).
HandlerResumes ==
    /\ handler.state = "awaiting"
    /\ call.state \in {"returned", "raised"}
    /\ \A q \in Platforms : task[q].pc \notin Live
    /\ IF call.state = "raised"
       THEN /\ handler' = [handler EXCEPT !.state = "done", !.response = "raised",
                                          !.failed = Cardinality(FailedAttempts),
                                          !.succeeded = Cardinality(SucceededAttempts)]
            /\ UNCHANGED <<error_store, next_uuid>>
       ELSE IF handler.kind \in SyncKinds
       THEN \E outcomes \in [DOMAIN call.results -> StoreOutcomes] :
               LET rec == RecordFailures(call.results, outcomes, call.restaurant_id, now,
                                         [store |-> error_store, uuid |-> next_uuid,
                                          accepted |-> 0, rejected |-> 0,
                                          raised |-> FALSE])
               IN  /\ error_store' = rec.store
                   /\ next_uuid' = rec.uuid
                   /\ handler' = [handler EXCEPT
                         !.state = "done",
                         !.failed = Cardinality(FailedAttempts),
                         !.succeeded = Cardinality(SucceededAttempts),
                         !.accepted = rec.accepted,
                         !.rejected = rec.rejected,
                         !.created = Cardinality(rec.store) - Cardinality(error_store),
                         !.response = IF rec.raised THEN "raised"
                                      ELSE Response(handler.kind, call.results)]
       ELSE \E o1, o2 \in StoreOutcomes :
               LET args == <<handler.target.error_id, handler.target.created_at>>
                   read == increment_retry_count(IdleIncrement, args, error_store, o1)
                   step == IF read.inv.pc = "writing"
                           THEN increment_retry_count(read.inv, args, read.store, o2)
                           ELSE read
               IN  /\ error_store' = step.store
                   /\ UNCHANGED next_uuid
                   /\ handler' = [handler EXCEPT
                         !.state = "done",
                         !.failed = Cardinality(FailedAttempts),
                         !.succeeded = Cardinality(SucceededAttempts),
                         !.response = IF step.inv.pc = "raised" THEN "raised"
                                      ELSE Response("retry_error", call.results)]
    /\ call' = IdleCall
    /\ task' = [q \in Platforms |-> InitTask]
    /\ UNCHANGED <<status_store, now, calls, incr, operation_store, adapter, op>>

HandlersNext ==
    \/ \E r \in Restaurants : HandleMenuChanged(r)
    \/ \E r \in Restaurants, key \in PresentedKeys : TriggerFullRefresh(r, key)
    \/ \E r \in Restaurants, p \in Platforms \cup {UnconfiguredPlatform},
          key \in PresentedKeys : TriggerPlatformSync(r, p, key)
    \/ \E id \in 1..(2 * MaxHandlerCalls + 1), key \in PresentedKeys,
          o \in StoreOutcomes : RetryError(id, key, o)
    \/ \E p \in Platforms : FetchReturns(p)
    \/ \E p \in Platforms : PublishReturns(p)
    \/ \E p \in Platforms : RetryDelayElapses(p)
    \/ BatchReturns
    \/ BatchRaises
    \/ HandlerResumes

SpecHandlers == Init /\ [][HandlersNext]_vars

\* C20: when a handler that synced (change notification, full refresh,
\* single-platform trigger, error retry) has ended, every sync attempt of its
\* call that failed has been handed to the Error Store exactly once, each
\* accepted write has added one new SyncError, none has replaced an existing
\* one, successful attempts have added nothing, and every SyncError is stored
\* with retry_count 0 for the restaurant of the call.
C20_OneErrorPerFailedAttempt ==
    (handler.state = "done" /\ handler.kind \in SyncKinds \cup {"retry_error"}) =>
        /\ handler.accepted + handler.rejected = handler.failed
        /\ handler.created = handler.accepted
        /\ \A e \in error_store : e.retry_count = 0 /\ e.restaurant_id \in Restaurants

\* C21: a change notification awaits sync_to_multiple_platforms with
\* retry=True, and once its handler has ended it has reported success exactly
\* when at least one platform's SyncResult was successful and failure when
\* every platform failed, whatever became of the error records.
C21_MenuChangedReportsAnySuccess ==
    /\ (handler.kind = "menu_changed" /\ handler.state = "awaiting") =>
           (call.kind = "batch" /\ call.retry)
    /\ (handler.kind = "menu_changed" /\ handler.state = "done") =>
           handler.response = (IF handler.succeeded > 0 THEN "true" ELSE "false")

\* C22: once a full refresh with a listed key has ended it has answered 207
\* exactly when at least one platform succeeded and at least one failed,
\* success when all succeeded and failure when all failed.
C22_PartialSuccessIs207 ==
    (handler.kind = "full_refresh" /\ handler.state = "done"
         /\ handler.key \in ApiKeys) =>
        handler.response =
            (IF handler.failed = 0 THEN "200 success"
             ELSE IF handler.succeeded = 0 THEN "200 failure"
             ELSE "207")

\* ===================================================================
\* The requests, up to the orchestrator: every change notification
\* (SpecEvents) and every admin request (SpecAdmin) is followed from its
\* arrival to its answer or to the await of its orchestrator call, against
\* tables that hold what record_sync_error and save_status have written. What
\* happens after the await is SpecHandlers.
\* ===================================================================

\* Rows get into the tables.
TablesFill ==
    \/ \E r \in Restaurants, p \in Platforms, o \in StoreOutcomes :
          RecordSyncError(r, p, PublishFailedMsg, NotGiven, NotGiven, o)
    \/ \E r \in Restaurants, p \in Platforms, o \in StoreOutcomes :
          SaveStatus(SyncStatus(r, p, "completed", 0, MaxItems), o)

EventsNext ==
    \/ \E event \in Events : LambdaHandleEventbridgeEvent(event)
    \/ \E event \in Events : HandleEventbridgeEvent(event)
    \/ TablesFill

SpecEvents == Init /\ [][EventsNext]_vars

AdminNext ==
    \/ \E r \in Restaurants, key \in PresentedKeys, o \in StoreOutcomes :
          GetSyncStatus(r, key, o)
    \/ \E r \in Restaurants, p \in Platforms \cup {""}, key \in PresentedKeys,
          o \in StoreOutcomes : GetErrors(r, p, key, o)
    \/ \E r \in Restaurants, key \in PresentedKeys : TriggerFullRefresh(r, key)
    \/ \E r \in Restaurants, p \in Platforms \cup {UnconfiguredPlatform},
          key \in PresentedKeys : TriggerPlatformSync(r, p, key)
    \/ \E id \in 1..(2 * MaxHandlerCalls + 1), key \in PresentedKeys,
          o \in StoreOutcomes : RetryError(id, key, o)
    \/ TablesFill

SpecAdmin == Init /\ [][AdminNext]_vars

\* An event of the recognised shape: the menu service's source and
\* detail-type, and a detail with restaurant id, change type and timestamp.
Recognised(event) ==
    /\ event.source = "com.restaurant.menu"
    /\ event.detail_type = "MenuChanged"
    /\ Missing \notin {event.detail.restaurant_id, event.detail.event_type,
                       event.detail.timestamp}

\* C23: a change notification that is not of the recognised shape is answered
\* with an error response and no orchestrator call is started for it.
C23_UnrecognisedEventRejected ==
    (handler.event /= NoEvent /\ ~Recognised(handler.event)) =>
        /\ handler.state = "done"
        /\ handler.response \in {"400", "500"}
        /\ call.state = "idle"

\* C24: an orchestrator call is only ever awaited for configured platforms,
\* and the step of an admin request that is answered 404 (single-platform
\* trigger for a platform without adapter, error retry that finds no error or
\* an error of a platform without adapter) starts no orchestrator call and
\* leaves the status table, the error table and every retry count as they
\* were.
C24_NotFoundChangesNothing ==
    /\ [](handler.state = "awaiting" =>
             Range(call.adapters) \subseteq Range(ConfiguredAdapters))
    /\ [][(handler' /= handler /\ handler'.response = "404") =>
             /\ handler'.state = "done"
             /\ UNCHANGED <<call, task, now, calls, status_store, error_store,
                            next_uuid, incr, operation_store, adapter>>]_vars

\* A single-platform trigger has been answered 404 while both tables hold rows.
C24_Witness ==
    /\ handler.kind = "platform_sync"
    /\ handler.response = "404"
    /\ error_store /= {}
    /\ \E k \in StatusKeys : status_store[k] /= NoStatus

\* The admin operations.
AdminKinds == {"sync_status", "full_refresh", "platform_sync", "errors", "retry_error"}

\* C25: an admin request whose X-API-Key header is missing, empty or not in
\* the allow-list is answered 401 after no store request, no request with a
\* listed key is answered 401, and the step that answers 401 starts no
\* orchestrator call and leaves both tables as they were.
C25_AdminNeedsListedKey ==
    /\ [](handler.kind \in AdminKinds =>
             /\ handler.key \notin ApiKeys =>
                   (handler.state = "done" /\ handler.response = "401"
                        /\ handler.reads = 0)
             /\ handler.key \in ApiKeys => handler.response /= "401")
    /\ [][(handler' /= handler /\ handler'.response = "401") =>
             UNCHANGED <<call, task, now, calls, status_store, error_store,
                         next_uuid, incr, operation_store, adapter>>]_vars

\* A full refresh with an unlisted key has been answered 401 while both
\* tables hold rows.
C25_Witness ==
    /\ handler.kind = "full_refresh"
    /\ handler.key = "key_2"
    /\ handler.response = "401"
    /\ error_store /= {}
    /\ \E k \in StatusKeys : status_store[k] /= NoStatus

\* C26: an error retry is answered 404 only when the error table holds no
\* error with the id of the request, and a retry that awaits sync_to_platform
\* does so with retry=True for the restaurant and platform of the error with
\* that id.
C26_RetryFindsStoredError ==
    [][(handler' /= handler /\ handler'.kind = "retry_error") =>
          /\ handler'.response = "404" =>
                ~\E e \in error_store : e.error_id = handler'.error_id
          /\ handler'.state = "awaiting" =>
                /\ handler'.target \in error_store
                /\ handler'.target.error_id = handler'.error_id
                /\ call'.kind = "single" /\ call'.retry
                /\ call'.restaurant_id = handler'.target.restaurant_id
                /\ call'.adapters = <<handler'.target.platform>>]_vars

\* The retry h is for an error the table holds, of a configured platform, and
\* carries a listed key.
RetryOfStoredError(h) ==
    /\ h.kind = "retry_error"
    /\ h.key \in ApiKeys
    /\ \E e \in error_store :
          e.error_id = h.error_id /\ e.platform \in Range(ConfiguredAdapters)

\* C27: when a retry of a stored error of a configured platform ends, it has
\* answered with the outcome of its re-sync and the stored retry_count of
\* that error is one more than before.
C27_RetryIncrementsCount ==
    [][(handler' /= handler /\ handler'.state = "done"
            /\ RetryOfStoredError(handler')) =>
          /\ handler'.response \in {"200 success", "200 failure"}
          /\ handler'.succeeded + handler'.failed = 1
          /\ handler'.response = "200 success" <=> handler'.succeeded = 1
          /\ \E e \in error_store, f \in error_store' :
                /\ e.error_id = handler'.error_id
                /\ f = [e EXCEPT !.retry_count = e.retry_count + 1]]_vars

\* C28: the SyncError a record_sync_error call has stored carries a menu
\* snapshot exactly when both menu_items and menu_categories were given, and
\* the snapshot then holds one entry for every given item and for every given
\* category, in their order, with every item price a string.
C28_SnapshotWhenBothGiven ==
    (op.name = "record_sync_error" /\ op.outcome = "ok") =>
        \E e \in error_store :
            /\ e = op.error
            /\ e.menu_snapshot.present <=>
                  (op.menu_items.given /\ op.menu_categories.given)
            /\ e.menu_snapshot.present =>
                  /\ Len(e.menu_snapshot.items) = Len(op.menu_items.list)
                  /\ Len(e.menu_snapshot.categories) = Len(op.menu_categories.list)
                  /\ \A i \in DOMAIN e.menu_snapshot.items :
                        /\ e.menu_snapshot.items[i].id = op.menu_items.list[i].id
                        /\ e.menu_snapshot.items[i].price.type = "str"
                        /\ e.menu_snapshot.items[i].price.value =
                              op.menu_items.list[i].price.value
                  /\ \A i \in DOMAIN e.menu_snapshot.categories :
                        e.menu_snapshot.categories[i].id = op.menu_categories.list[i].id

\* An error was stored with a snapshot of a non-empty menu.
C28_Witness ==
    /\ op.name = "record_sync_error"
    /\ op.outcome = "ok"
    /\ op.menu_items.given /\ op.menu_categories.given
    /\ Len(op.menu_items.list) = MaxItems
    /\ op.error \in error_store
    /\ op.error.menu_snapshot.present

\* ===================================================================
\* The models and their store items (models/sync_models.py), and the sync
\* operation table (SyncOperationRepository).
\* ===================================================================

\* The datetimes the models carry: a point in time with or without
\* microseconds, naive or with a UTC offset in minutes.
Datetimes == [seconds : 0..1, microsecond : {0, 250}, utcoffset : Opt({0, 60})]

\* Variant: the string is cut at the seconds (timespec="seconds").
isoformat_seconds(dt) ==
    <<"T", dt.seconds>>
        \o (IF dt.utcoffset /= None THEN <<"+", dt.utcoffset[1]>> ELSE <<>>)

\* datetime.isoformat: the date and time, then the microseconds unless they
\* are 0, then the UTC offset unless the datetime is naive.
isoformat(dt) ==
    <<"T", dt.seconds>>
        \o (IF dt.microsecond /= 0 THEN <<".", dt.microsecond>> ELSE <<>>)
        \o (IF dt.utcoffset /= None THEN <<"+", dt.utcoffset[1]>> ELSE <<>>)

\* datetime.fromisoformat: microseconds that are not written are 0, an offset
\* that is not written gives a naive datetime.
fromisoformat(text) ==
    LET fraction == Len(text) >= 4 /\ text[3] = "."
        rest == IF fraction THEN SubSeq(text, 5, Len(text))
                ELSE SubSeq(text, 3, Len(text))
    IN  [seconds |-> text[2],
         microsecond |-> IF fraction THEN text[4] ELSE 0,
         utcoffset |-> IF rest /= <<>> THEN Some(rest[2]) ELSE None]

\* SyncStatusEnum: the members and their values.
SyncStatusEnumMembers == {"PENDING", "IN_PROGRESS", "COMPLETED", "FAILED"}

EnumValue(member) ==
    CASE member = "PENDING" -> "pending"
      [] member = "IN_PROGRESS" -> "in_progress"
      [] member = "COMPLETED" -> "completed"
      [] member = "FAILED" -> "failed"

\* SyncStatusEnum(value): the member with that value.
SyncStatusEnum(value) == CHOOSE member \in SyncStatusEnumMembers : EnumValue(member) = value

\* The valid SyncStatus objects: item_count, when given, is not negative.
SyncStatusModels ==
    [restaurant_id : Restaurants, platform : {"doordash"},
     status : SyncStatusEnumMembers, last_sync_time : Opt(Datetimes),
     item_count : Opt(0..MaxItems), external_menu_id : Opt({"", "menu_1"})]

\* SyncStatus.to_dynamodb_item: the optional fields are written when they are
\* not None.
SyncStatus_to_dynamodb_item(m) ==
    [restaurant_id |-> Some(m.restaurant_id),
     platform |-> Some(m.platform),
     status |-> Some(EnumValue(m.status)),
     last_sync_time |-> IF m.last_sync_time /= None
                        THEN Some(isoformat(m.last_sync_time[1])) ELSE None,
     item_count |-> IF m.item_count /= None THEN Some(m.item_count[1]) ELSE None,
     external_menu_id |-> IF m.external_menu_id /= None
                          THEN Some(m.external_menu_id[1]) ELSE None]

\* SyncStatus.from_dynamodb_item: the optional fields are read when the item
\* has them.
SyncStatus_from_dynamodb_item(item) ==
    [restaurant_id |-> item.restaurant_id[1],
     platform |-> item.platform[1],
     status |-> SyncStatusEnum(item.status[1]),
     last_sync_time |-> IF item.last_sync_time /= None
                        THEN Some(fromisoformat(item.last_sync_time[1])) ELSE None,
     item_count |-> IF item.item_count /= None THEN Some(item.item_count[1]) ELSE None,
     external_menu_id |-> IF item.external_menu_id /= None
                          THEN Some(item.external_menu_id[1]) ELSE None]

\* The valid SyncError objects: retry_count is not negative.
SyncErrorModels ==
    [error_id : {"err_1"}, created_at : Datetimes, restaurant_id : Restaurants,
     platform : {"doordash"}, error_details : {FetchFailedMsg},
     menu_snapshot : Opt({create_menu_snapshot(<<>>, <<>>),
                          create_menu_snapshot([i \in 1..MaxItems |-> MenuItem(i)],
                                               [i \in 1..MaxItems |-> Category(i)])}),
     retry_count : 0..1]

\* SyncError.to_dynamodb_item
SyncError_to_dynamodb_item(m) ==
    [error_id |-> Some(m.error_id),
     created_at |-> Some(isoformat(m.created_at)),
     restaurant_id |-> Some(m.restaurant_id),
     platform |-> Some(m.platform),
     error_details |-> Some(m.error_details),
     retry_count |-> Some(m.retry_count),
     menu_snapshot |-> IF m.menu_snapshot /= None THEN Some(m.menu_snapshot[1]) ELSE None]

\* SyncError.from_dynamodb_item: retry_count is 0 when the item has none.
SyncError_from_dynamodb_item(item) ==
    [error_id |-> item.error_id[1],
     created_at |-> fromisoformat(item.created_at[1]),
     restaurant_id |-> item.restaurant_id[1],
     platform |-> item.platform[1],
     error_details |-> item.error_details[1],
     menu_snapshot |-> IF item.menu_snapshot /= None
                       THEN Some(item.menu_snapshot[1]) ELSE None,
     retry_count |-> IF item.retry_count /= None THEN item.retry_count[1] ELSE 0]

\* SyncOperation(...): pydantic accepts the fields when total_items > 0 and
\* items_processed >= 0, and raises ValidationError otherwise.
SyncOperation(operation_id, restaurant_id, platform, status, total_items, items_processed) ==
    [valid |-> total_items > 0 /\ items_processed >= 0,
     operation_id |-> operation_id, restaurant_id |-> restaurant_id,
     platform |-> platform, status |-> status, total_items |-> total_items,
     items_processed |-> items_processed]

\* No SyncOperation: the call returned None or raised.
NoOperation == SyncOperation("", "", "", "PENDING", 0, 0)

\* The valid SyncOperation objects.
SyncOperationModels ==
    {SyncOperation(id, r, "doordash", s, t, n) :
        id \in OperationIds, r \in Restaurants, s \in SyncStatusEnumMembers,
        t \in 1..MaxItems, n \in 0..(MaxItems + 1)}

\* SyncOperation.progress_percentage, rounded down to a whole number.
progress_percentage(m) ==
    IF m.total_items = 0 THEN 0 ELSE (m.items_processed * 100) \div m.total_items

\* SyncOperation.to_dynamodb_item
SyncOperation_to_dynamodb_item(m) ==
    OperationItem(Some(m.operation_id), Some(m.restaurant_id), Some(m.platform),
                  Some(EnumValue(m.status)), Some(m.total_items),
                  Some(m.items_processed))

\* SyncOperation.from_dynamodb_item: KeyError when the item lacks a required
\* attribute, items_processed is 0 when the item has none, and the
\* constructor validates the values.
SyncOperation_from_dynamodb_item(item) ==
    IF None \in {item.operation_id, item.restaurant_id, item.platform, item.status,
                 item.total_items}
    THEN [report |-> "raised", operation |-> NoOperation]
    ELSE LET m == SyncOperation(item.operation_id[1], item.restaurant_id[1],
                                item.platform[1], SyncStatusEnum(item.status[1]),
                                item.total_items[1],
                                IF item.items_processed /= None
                                THEN item.items_processed[1] ELSE 0)
         IN  [report |-> IF m.valid THEN "ok" ELSE "raised",
              operation |-> IF m.valid THEN m ELSE NoOperation]

\* SyncOperationRepository.save_operation: put_item replaces the row.
save_operation(store, operation, outcome) ==
    [store |-> IF outcome = "ok"
               THEN [store EXCEPT ![operation.operation_id] =
                        SyncOperation_to_dynamodb_item(operation)]
               ELSE store,
     report |-> Report(outcome, "true", "false")]

\* SyncOperationRepository.get_operation
get_operation(store, operation_id, outcome) ==
    IF outcome /= "ok" \/ store[operation_id] = NoRow
    THEN [report |-> Report(outcome, "none", "none"), operation |-> NoOperation]
    ELSE SyncOperation_from_dynamodb_item(store[operation_id])

\* SyncOperationRepository.update_progress: update_item sets items_processed
\* on the row with the key, creating the row when there is none.
update_progress(store, operation_id, items_processed, outcome) ==
    [store |-> IF outcome = "ok"
               THEN [store EXCEPT ![operation_id] =
                        [@ EXCEPT !.operation_id = Some(operation_id),
                                  !.items_processed = Some(items_processed)]]
               ELSE store,
     report |-> Report(outcome, "true", "false")]

model_frame ==
    <<call, task, now, calls, status_store, error_store, next_uuid, incr, handler, adapter>>

\* A model is converted to its store item and back.
ModelOp(name, original, item, restored) ==
    [name |-> name, report |-> "ok", original |-> original, item |-> item,
     restored |-> restored]

\* An operation of the sync operation table or the constructor has ended.
OperationOp(name, report, operation) ==
    [name |-> name, report |-> report, operation |-> operation,
     progress_percentage |-> progress_percentage(operation)]

RoundTripStatus(m) ==
    /\ LET item == SyncStatus_to_dynamodb_item(m)
       IN  op' = ModelOp("SyncStatus", m, item, SyncStatus_from_dynamodb_item(item))
    /\ UNCHANGED <<model_frame, operation_store>>

RoundTripError(m) ==
    /\ LET item == SyncError_to_dynamodb_item(m)
       IN  op' = ModelOp("SyncError", m, item, SyncError_from_dynamodb_item(item))
    /\ UNCHANGED <<model_frame, operation_store>>

RoundTripOperation(m) ==
    /\ LET item == SyncOperation_to_dynamodb_item(m)
       IN  op' = ModelOp("SyncOperation", m, item,
                         SyncOperation_from_dynamodb_item(item).operation)
    /\ UNCHANGED <<model_frame, operation_store>>

\* A caller constructs a SyncOperation.
ConstructOperation(status, total_items, items_processed) ==
    /\ LET m == SyncOperation("op_1", "rest_1", "doordash", status, total_items,
                              items_processed)
       IN  op' = OperationOp("construct", IF m.valid THEN "ok" ELSE "raised",
                             IF m.valid THEN m ELSE NoOperation)
    /\ UNCHANGED <<model_frame, operation_store>>

\* A caller saves a SyncOperation it has constructed.
SaveOperation(m, outcome) ==
    /\ LET sv == save_operation(operation_store, m, outcome)
       IN  /\ operation_store' = sv.store
           /\ op' = OperationOp("save_operation", sv.report, m)
    /\ UNCHANGED model_frame

\* A caller reports the progress of an operation.
UpdateProgress(operation_id, items_processed, outcome) ==
    /\ LET up == update_progress(operation_store, operation_id, items_processed, outcome)
       IN  /\ operation_store' = up.store
           /\ op' = OperationOp("update_progress", up.report, NoOperation)
    /\ UNCHANGED model_frame

\* A caller reads an operation back.
GetOperation(operation_id, outcome) ==
    /\ LET g == get_operation(operation_store, operation_id, outcome)
       IN  op' = OperationOp("get_operation", g.report, g.operation)
    /\ UNCHANGED <<model_frame, operation_store>>

ModelsNext ==
    \/ \E m \in SyncStatusModels : RoundTripStatus(m)
    \/ \E m \in SyncErrorModels : RoundTripError(m)
    \/ \E m \in SyncOperationModels : RoundTripOperation(m)

SpecModels == Init /\ [][ModelsNext]_vars

OperationsNext ==
    \/ \E s \in SyncStatusEnumMembers, t \in 0..MaxItems, n \in (-1)..(MaxItems + 1) :
          ConstructOperation(s, t, n)
    \/ \E m \in SyncOperationModels, o \in StoreOutcomes : SaveOperation(m, o)
    \/ \E id \in OperationIds, n \in (-1)..(MaxItems + 1), o \in StoreOutcomes :
          UpdateProgress(id, n, o)
    \/ \E id \in OperationIds, o \in StoreOutcomes : GetOperation(id, o)

SpecOperations == Init /\ [][OperationsNext]_vars

\* The optional attributes of the items.
OptionalFields == {"last_sync_time", "item_count", "external_menu_id", "menu_snapshot"}

\* C29: a valid SyncStatus, SyncError or SyncOperation converted to its store
\* item and back equals the original in every field; an optional field that
\* is None is not in the item and comes back None, and a status is stored as
\* its lower-case value.
C29_ItemRoundTrip ==
    op.name \in {"SyncStatus", "SyncError", "SyncOperation"} =>
        /\ op.restored = op.original
        /\ \A f \in OptionalFields \cap DOMAIN op.original :
              op.original[f] = None <=> op.item[f] = None
        /\ "status" \in DOMAIN op.item =>
              op.item.status \in {Some("pending"), Some("in_progress"),
                                  Some("completed"), Some("failed")}

\* A SyncStatus with a timestamp that has microseconds and an offset, and
\* without item count, has made the round trip.
C29_Witness ==
    /\ op.name = "SyncStatus"
    /\ op.original.last_sync_time /= None
    /\ op.original.last_sync_time[1].microsecond /= 0
    /\ op.original.last_sync_time[1].utcoffset /= None
    /\ op.original.item_count = None
    /\ op.item.item_count = None
    /\ op.restored = op.original

\* C30: every SyncOperation that has been constructed or read back, and every
\* row of the sync operation table, has total_items > 0 and
\* 0 <= items_processed <= total_items, and the progress of the operation is
\* between 0 and 100.
C30_ProgressWithinBounds ==
    /\ \A id \in OperationIds :
          operation_store[id] /= NoRow =>
              /\ operation_store[id].total_items /= None
              /\ operation_store[id].items_processed /= None
              /\ operation_store[id].total_items[1] > 0
              /\ operation_store[id].items_processed[1] >= 0
              /\ operation_store[id].items_processed[1] <=
                    operation_store[id].total_items[1]
    /\ (op.name \in {"construct", "save_operation", "get_operation"}
            /\ op.report \in {"ok", "true"}) =>
          /\ op.operation.total_items > 0
          /\ op.operation.items_processed >= 0
          /\ op.operation.items_processed <= op.operation.total_items
          /\ op.progress_percentage \in 0..100

\* ===================================================================
\* The DoorDash adapter (adapters/doordash_adapter.py)
\* ===================================================================

MaxMenuLen == 2     \* longest items list and categories list handed to format_menu

\* The prices of the items, as Decimals counted in thousandths: 0, 4.50,
\* 12.99 and 9.999 (ge=0 is the only constraint of MenuItem.price).
Prices == {Decimal(0), Decimal(4500), Decimal(12990), Decimal(9999)}

\* What a caller can pass as an element of `items`: a MenuItem (its id is its
\* place in the restaurant's menu), or an object that is not one (a dict).
\* The dict has none of the attributes; its fields here are placeholders.
ItemArguments(i) ==
    {[type |-> "MenuItem", id |-> i, price |-> pr, available |-> av] :
        pr \in Prices, av \in BOOLEAN}
    \cup {[type |-> "dict", id |-> 0, price |-> Decimal(0), available |-> FALSE]}

\* What a caller can pass as an element of `categories`: one of two
\* categories, or an object that is not a Category.
CategoryArguments ==
    {[type |-> "Category", id |-> c, sort_order |-> 3 - c] : c \in 1..2}
    \cup {[type |-> "dict", id |-> 0, sort_order |-> 0]}

ItemsArguments ==
    UNION {{s \in [1..n -> UNION {ItemArguments(i) : i \in 1..n}] :
               \A i \in 1..n : s[i] \in ItemArguments(i)} : n \in 0..MaxMenuLen}

CategoriesArguments == UNION {[1..n -> CategoryArguments] : n \in 0..MaxMenuLen}

\* What a try block comes to: a value, or an exception.
Returns(value) == [raised |-> FALSE, value |-> value]

Raises == [raised |-> TRUE, value |-> None]

\* Variant: the price is passed on in the unit it came in.
price_in_units(price) == price.value \div 1000

\* int(item.price * 100): the product is exact (Decimal), int() drops the
\* fraction of a cent.
price_in_cents(price) == (price.value * 100) \div 1000

\* The dict built for one item.
format_item(item) == [id |-> item.id, price |-> price_in_cents(item.price)]

\* The dict built for one category.
format_category(cat) == [id |-> cat.id, sort_order |-> cat.sort_order]

\* The body of the try block of format_menu: reading .available of an object
\* that is not a MenuItem, or .id of one that is not a Category, raises
\* AttributeError.
format_menu_body(items, categories) ==
    IF \/ \E i \in DOMAIN items : items[i].type /= "MenuItem"
       \/ \E i \in DOMAIN categories : categories[i].type /= "Category"
    THEN Raises
    ELSE LET available_items == format_menu(items)
         IN  Returns(Some(
                 [categories |-> [i \in DOMAIN categories |-> format_category(categories[i])],
                  items |-> [i \in DOMAIN available_items |->
                                format_item(available_items[i])]]))

\* Variant: no except clause.
format_menu_uncaught(items, categories) == format_menu_body(items, categories)

\* DoorDashAdapter.format_menu: `except Exception: return None`.
DoorDashAdapter_format_menu(items, categories) ==
    LET body == format_menu_body(items, categories)
    IN  IF body.raised THEN Returns(None) ELSE body

\* What `await client.post(...)` or `await client.put(...)` comes to: an
\* httpx exception (connection refused, timeout), or a response with a status
\* code and a JSON body that has an access_token or has none.
NetworkError == [raised |-> TRUE, status_code |-> 0, access_token |-> FALSE]

HttpResponse(status_code, access_token) ==
    [raised |-> FALSE, status_code |-> status_code, access_token |-> access_token]

AuthResponses ==
    {NetworkError, HttpResponse(200, TRUE), HttpResponse(200, FALSE),
     HttpResponse(401, FALSE), HttpResponse(500, FALSE)}

MenuResponses ==
    {NetworkError, HttpResponse(200, FALSE), HttpResponse(201, FALSE),
     HttpResponse(404, FALSE), HttpResponse(500, FALSE)}

TokenRequest == "POST /auth/token"

MenuRequest == "PUT /v1/stores/{store_id}/menu"

\* Variant: the status of the token response is not looked at.
after_token_response_unchecked(response) ==
    IF response.raised THEN "raise" ELSE "put"

\* Step 1 of publish_menu once client.post is over: a status other than 200
\* returns False; a body without access_token raises KeyError.
after_token_response(response) ==
    IF response.raised THEN "raise"
    ELSE IF response.status_code /= 200 THEN "return_false"
    ELSE IF ~response.access_token THEN "raise"
    ELSE "put"

\* Step 2 of publish_menu once client.put is over.
after_menu_response(response) ==
    IF response.raised THEN "raise"
    ELSE IF response.status_code = 200 THEN "return_true"
    ELSE "return_false"

\* `except Exception: return False` around both steps.
publish_except(next) == IF next = "raise" THEN "return_false" ELSE next

\* The call is over: with True, with False, or with an exception.
publish_ends(a, next) ==
    [a EXCEPT !.pc = IF next = "raise" THEN "raised" ELSE "returned",
              !.returned = IF next = "raise" THEN None ELSE Some(next = "return_true"),
              !.raised = (next = "raise")]

adapter_frame ==
    <<call, task, now, calls, status_store, error_store, next_uuid, incr, op, handler,
      operation_store>>

\* adapter.format_menu(items, categories)
FormatMenu(items, categories) ==
    /\ adapter.pc = "new"
    /\ LET f == DoorDashAdapter_format_menu(items, categories)
       IN  adapter' = [adapter EXCEPT !.pc = "formatted",
                                      !.items = items, !.categories = categories,
                                      !.format_calls = 1,
                                      !.formatted = f.value,
                                      !.format_raised = f.raised]
    /\ UNCHANGED adapter_frame

\* await adapter.publish_menu(restaurant_id, formatted_menu) with the menu
\* format_menu returned: the client is opened and the token request is sent.
PublishMenu(r) ==
    /\ adapter.pc = "formatted"
    /\ adapter.formatted /= None
    /\ adapter' = [adapter EXCEPT !.pc = "awaiting_token", !.restaurant_id = r,
                                  !.sent = <<TokenRequest>>]
    /\ UNCHANGED adapter_frame

\* client.post is over.
TokenResponds(response) ==
    /\ adapter.pc = "awaiting_token"
    /\ LET a == [adapter EXCEPT !.auth_response = Some(response)]
           next == publish_except(after_token_response(response))
       IN  adapter' = IF next = "put"
                      THEN [a EXCEPT !.pc = "awaiting_menu",
                                     !.sent = Append(@, MenuRequest)]
                      ELSE publish_ends(a, next)
    /\ UNCHANGED adapter_frame

\* client.put is over.
MenuResponds(response) ==
    /\ adapter.pc = "awaiting_menu"
    /\ LET a == [adapter EXCEPT !.menu_response = Some(response)]
       IN  adapter' = publish_ends(a, publish_except(after_menu_response(response)))
    /\ UNCHANGED adapter_frame

AdapterNext ==
    \/ /\ adapter.pc = "new"
       /\ \E items \in ItemsArguments, categories \in CategoriesArguments :
             FormatMenu(items, categories)
    \/ \E r \in Restaurants : PublishMenu(r)
    \/ \E response \in AuthResponses : TokenResponds(response)
    \/ \E response \in MenuResponses : MenuResponds(response)

SpecAdapter == Init /\ [][AdapterNext]_vars

\* ===================================================================
\* Properties of the adapter
\* ===================================================================

\* A response the claims call an expected failure: a network error, or a
\* status that is not a 2xx.
Rejected(response) ==
    response.raised \/ response.status_code < 200 \/ response.status_code >= 300

\* C31: the adapter reports every expected failure as a return value. A
\* format_menu call whose arguments cannot be formatted (an element is not a
\* MenuItem or not a Category) returns None; a publish_menu call whose token
\* exchange or upsert met a rejection, a non-2xx status or a network error
\* returns False; neither call ever ends with an exception.
C31_ExpectedFailuresAreReturnValues ==
    /\ ~adapter.format_raised
    /\ ~adapter.raised
    /\ adapter.pc /= "raised"
    /\ (/\ adapter.format_calls = 1
        /\ \/ \E i \in DOMAIN adapter.items : adapter.items[i].type /= "MenuItem"
           \/ \E i \in DOMAIN adapter.categories :
                 adapter.categories[i].type /= "Category")
       => adapter.formatted = None
    /\ (adapter.auth_response /= None /\ Rejected(adapter.auth_response[1]))
       => adapter.returned = Some(FALSE)
    /\ (adapter.menu_response /= None /\ Rejected(adapter.menu_response[1]))
       => adapter.returned = Some(FALSE)

\* A format_menu call with a dict among valid items has returned None.
C31_Witness ==
    /\ adapter.pc = "formatted"
    /\ Len(adapter.items) = 2
    /\ adapter.items[1].type = "MenuItem"
    /\ adapter.items[2].type = "dict"
    /\ adapter.formatted = None
    /\ ~adapter.format_raised

\* The places of `items` that hold an available item.
AvailablePlaces == {i \in DOMAIN adapter.items : adapter.items[i].available}

\* C32: for every list of MenuItems and every list of Categories the formatted
\* menu holds exactly the available items, each once and none that is
\* unavailable, each with the whole number of cents in its price (the integer
\* c with c <= price x 100 < c + 1), and every category at the place it had in
\* the input with its sort order.
C32_FormattedMenuContents ==
    (/\ adapter.format_calls = 1
     /\ \A i \in DOMAIN adapter.items : adapter.items[i].type = "MenuItem"
     /\ \A i \in DOMAIN adapter.categories : adapter.categories[i].type = "Category")
    => /\ adapter.formatted /= None
       /\ LET menu == adapter.formatted[1]
          IN  /\ Len(menu.items) = Cardinality(AvailablePlaces)
              /\ {menu.items[j].id : j \in DOMAIN menu.items} = AvailablePlaces
              /\ \A j \in DOMAIN menu.items :
                    LET price == adapter.items[menu.items[j].id].price.value
                        cents == menu.items[j].price
                    IN  /\ cents * 1000 <= price * 100
                        /\ price * 100 < (cents + 1) * 1000
              /\ Len(menu.categories) = Len(adapter.categories)
              /\ \A i \in DOMAIN adapter.categories :
                    /\ menu.categories[i].id = adapter.categories[i].id
                    /\ menu.categories[i].sort_order = adapter.categories[i].sort_order

\* An unavailable item and an item of 12.99 were formatted with two
\* categories whose sort orders run against their input order: the menu has
\* the one item at 1299 cents.
C32_Witness ==
    /\ adapter.format_calls = 1
    /\ Len(adapter.items) = 2
    /\ adapter.items[1].type = "MenuItem" /\ ~adapter.items[1].available
    /\ adapter.items[2].type = "MenuItem" /\ adapter.items[2].available
    /\ adapter.items[2].price = Decimal(12990)
    /\ Len(adapter.categories) = 2
    /\ adapter.categories[1].type = "Category" /\ adapter.categories[2].type = "Category"
    /\ adapter.categories[1].sort_order < adapter.categories[2].sort_order
    /\ adapter.categories[1].id > adapter.categories[2].id
    /\ adapter.formatted /= None
    /\ Len(adapter.formatted[1].items) = 1
    /\ adapter.formatted[1].items[1].price = 1299

\* C33: within one publish_menu call the token request is sent first and the
\* menu upsert only after it: the upsert is sent only when the token exchange
\* was answered with 200 (never after a rejection or a failure of it), and the
\* call returns True only when the token exchange and the upsert were both
\* answered with 200.
C33_TokenBeforeUpsert ==
    /\ adapter.sent \in {<<>>, <<TokenRequest>>, <<TokenRequest, MenuRequest>>}
    /\ MenuRequest \in Range(adapter.sent)
       => /\ adapter.auth_response /= None
          /\ ~adapter.auth_response[1].raised
          /\ adapter.auth_response[1].status_code = 200
    /\ adapter.returned = Some(TRUE)
       => /\ adapter.auth_response /= None
          /\ ~adapter.auth_response[1].raised
          /\ adapter.auth_response[1].status_code = 200
          /\ adapter.menu_response /= None
          /\ ~adapter.menu_response[1].raised
          /\ adapter.menu_response[1].status_code = 200

\* The token exchange was rejected with 401: the call has returned False and
\* only the token request was sent.
C33_Witness ==
    /\ adapter.pc = "returned"
    /\ adapter.auth_response = Some(HttpResponse(401, FALSE))
    /\ adapter.sent = <<TokenRequest>>
    /\ adapter.returned = Some(FALSE)

\* ===================================================================
\* Order and frame of sync_to_platform
\* ===================================================================

\* C34: within one sync_to_platform call the steps come in the order format,
\* first publish attempt, delay, retry, status write, return. format is called
\* only on fetched data and publish only on a formatted menu; the delay starts
\* only when the first attempt has returned false and the second attempt only
\* when the delay is over; the status is written in the step in which the
\* fetch or the last publish attempt returns, never while an attempt or the
\* delay is pending, and a SyncResult is returned only by a coroutine that
\* has attempted its status write.
C34_StepsInOrder ==
    /\ [](\A p \in Platforms :
            LET t == task[p] IN
            /\ t.format_calls >= 1 => t.menu_data = "data"
            /\ t.publish_calls >= 1 => (t.format_calls = 1 /\ t.format_ok)
            /\ t.pc = "sleeping" =>
                  (t.publish_calls = 1 /\ t.first_publish = "false")
            /\ t.publish_calls = 2 => t.first_publish = "false"
            /\ t.pc \in Live => t.status_writes = 0
            /\ t.status_writes <= 1
            /\ t.pc = "done" => (t.status_writes = 1 /\ t.result /= NoResult)
            /\ t.result /= NoResult => t.status_writes = 1)
    /\ [][\A p \in Platforms :
            /\ (task[p].publish_calls = 1 /\ task'[p].publish_calls = 2)
               => (task[p].pc = "sleeping" /\ task'[p].pc = "publishing")
            /\ (task[p].pc = "sleeping" /\ task'[p].pc /= "sleeping")
               => (task'[p].pc = "publishing" /\ task'[p].publish_calls = 2)
            /\ task'[p].status_writes > task[p].status_writes
               => /\ task[p].pc \in {"fetching", "publishing"}
                  /\ task'[p].pc \in {"done", "raised"}
                  /\ task[p].pc = "publishing" =>
                        task'[p].publish_calls = task[p].publish_calls]_vars

\* A call with retry went through a false first attempt, the delay and a
\* second attempt, wrote its status and returned its result.
C34_Witness ==
    \E p \in Platforms :
        /\ task[p].pc = "done" /\ call.retry
        /\ task[p].format_calls = 1
        /\ task[p].first_publish = "false" /\ task[p].publish_calls = 2
        /\ task[p].status_writes = 1
        /\ task[p].result /= NoResult

\* C35: every sync_to_platform call that returns has performed exactly one
\* status write, with the key (restaurant_id, platform) it was called with,
\* whichever path it took (fetch absent, format none, publish failed,
\* success). A step changes no status row other than the row of the
\* coroutine that writes in that step, and no step of the orchestrator
\* changes the error table; the coroutines of one batch have pairwise
\* different keys.
C35_OneWriteToOwnKey ==
    /\ [](\A p \in Platforms :
            LET t == task[p] IN
            /\ t.pc = "done" =>
                  /\ t.status_writes = 1
                  /\ t.written.restaurant_id = call.restaurant_id
                  /\ t.written.platform = p
            /\ t.status_writes = 1 => <<t.written.restaurant_id, t.written.platform>> = Key(p))
    /\ [](\A i, j \in DOMAIN call.adapters :
            i /= j => Key(call.adapters[i]) /= Key(call.adapters[j]))
    /\ [][/\ error_store' = error_store
          /\ \A k \in StatusKeys :
                status_store'[k] /= status_store[k] =>
                    \E p \in Platforms :
                        /\ k = Key(p)
                        /\ task'[p].status_writes = task[p].status_writes + 1
                        /\ status_store'[k] = task'[p].written]_vars

\* A batch over both platforms has returned: the two coroutines took different
\* paths (one published, one stopped at fetch or format) and each wrote its
\* own row once.
C35_Witness ==
    /\ call.kind = "batch" /\ call.state = "returned"
    /\ Len(call.adapters) = 2
    /\ \A p \in Platforms :
          /\ task[p].pc = "done" /\ task[p].status_writes = 1
          /\ task[p].write_outcome = "ok"
          /\ status_store[Key(p)] = task[p].written
          /\ status_store[Key(p)].platform = p
    /\ \E p, q \in Platforms :
          /\ task[p].publish_calls >= 1 /\ task[p].publish_success
          /\ task[q].publish_calls = 0

\* C36: the orchestrator writes only rows with status completed or failed:
\* no row of the status table and no status a coroutine has written is
\* pending or in_progress, and as long as a coroutine is still running (at
\* its fetch, a publish attempt or the delay) no step changes its row, so the
\* row still shows what the previous pass left there.
C36_OnlyFinalStatuses ==
    /\ [](/\ \A k \in StatusKeys :
               status_store[k].status \in {"absent", "completed", "failed"}
          /\ \A p \in Platforms :
               task[p].status_writes >= 1 => task[p].written.status \in {"completed", "failed"})
    /\ [][\A p \in Platforms :
            task'[p].pc \in Live =>
                status_store'[<<call'.restaurant_id, p>>] =
                    status_store[<<call'.restaurant_id, p>>]]_vars

\* A second pass is at its publish attempt while the row still shows the
\* completed outcome of the first pass.
C36_Witness ==
    \E p \in Platforms :
        /\ calls = 2
        /\ task[p].pc = "publishing"
        /\ status_store[Key(p)].status = "completed"
        /\ status_store[Key(p)].last_sync_time < now

\* ===================================================================
\* The service without platform adapters: create_platform_adapters and
\* get_platform_adapters return an empty dict when no platform has its
\* credentials, and the handlers are built over it.
\* ===================================================================

NoAdapters == <<>>

\* The handler awaits sync_to_multiple_platforms over the empty dict.
StartBatchUnconfigured(r, h) ==
    /\ calls < MaxHandlerCalls
    /\ call' = [kind |-> "batch", restaurant_id |-> r, adapters |-> NoAdapters,
                retry |-> TRUE, state |-> "running", results |-> <<>>]
    /\ task' = BatchTasks(NoAdapters)
    /\ calls' = calls + 1
    /\ now' = now + 1
    /\ handler' = h

\* EventHandler.handle_menu_changed, up to its await of the batch.
HandleMenuChangedUnconfigured(r) ==
    /\ HandlerCanStart
    /\ StartBatchUnconfigured(r, Awaiting("menu_changed", Missing, NoEvent, NoError, 0))
    /\ UNCHANGED <<status_store, error_store, next_uuid, incr, operation_store, adapter, op>>

\* trigger_full_refresh, up to its await of the batch.
TriggerFullRefreshUnconfigured(r, key) ==
    /\ HandlerCanStart
    /\ IF validate_api_key(key) = "401"
       THEN Answer(Answered("full_refresh", key, NoEvent, "401", 0))
       ELSE StartBatchUnconfigured(r, Awaiting("full_refresh", key, NoEvent, NoError, 0))
    /\ UNCHANGED <<status_store, error_store, next_uuid, incr, operation_store, adapter, op>>

UnconfiguredNext ==
    \/ \E r \in Restaurants : HandleMenuChangedUnconfigured(r)
    \/ \E r \in Restaurants, key \in PresentedKeys : TriggerFullRefreshUnconfigured(r, key)
    \/ /\ handler.state /= "awaiting"
       /\ \E r \in Restaurants, retry \in BOOLEAN :
             SyncToMultiplePlatforms(r, NoAdapters, retry)
    \/ BatchReturns
    \/ HandlerResumes
    \/ handler.state /= "awaiting" /\ CallerContinues
    \/ TablesFill

SpecUnconfigured == Init /\ [][UnconfiguredNext]_vars

\* C37: with an empty platform-adapter map sync_to_multiple_platforms returns
\* the empty list, no coroutine having been created, so nothing was fetched,
\* formatted, published or written; the change notification handler then
\* answers false, the full refresh of a caller with a listed key answers
\* 200 with success, and no step of the call or of a handler changes the
\* status table or the error table.
C37_EmptyAdapterMap ==
    /\ [](call.adapters = NoAdapters =>
            /\ \A p \in Platforms : task[p] = InitTask
            /\ call.state /= "raised"
            /\ call.state = "returned" => call.results = <<>>)
    /\ []((handler.state = "done" /\ handler.kind = "menu_changed") =>
             (handler.response = "false" /\ handler.created = 0))
    /\ []((handler.state = "done" /\ handler.kind = "full_refresh"
                                 /\ handler.key \in ApiKeys) =>
             (handler.response = "200 success" /\ handler.created = 0))
    /\ [][(call' /= call \/ handler' /= handler) =>
             /\ status_store' = status_store
             /\ error_store' = error_store
             /\ next_uuid' = next_uuid]_vars

\* A full refresh of the service without adapters has answered success.
C37_Witness ==
    /\ handler.state = "done" /\ handler.kind = "full_refresh"
    /\ handler.key \in ApiKeys
    /\ handler.response = "200 success"
    /\ handler.failed = 0 /\ handler.succeeded = 0
    /\ calls = 1
    /\ call = IdleCall

\* ===================================================================
\* Termination of the orchestrator
\* ===================================================================

\* One orchestrator call from its start to its end: the caller starts it and
\* does nothing else.
LiveNext ==
    \/ \E r \in Restaurants, p \in Platforms, retry \in BOOLEAN : SyncToPlatform(r, p, retry)
    \/ \E r \in Restaurants, a \in AdapterMaps, retry \in BOOLEAN :
          SyncToMultiplePlatforms(r, a, retry)
    \/ \E p \in Platforms : FetchReturns(p)
    \/ \E p \in Platforms : PublishReturns(p)
    \/ \E p \in Platforms : RetryDelayElapses(p)
    \/ BatchReturns
    \/ BatchRaises

\* Every call a coroutine awaits is eventually over (the menu service, the
\* adapter and the store answer or fail), the event loop wakes a coroutine
\* when its sleep is over, and it completes the gather future when its tasks
\* have ended or one has raised. Nothing obliges a caller to start a call.
SpecLive ==
    /\ Init
    /\ [][LiveNext]_vars
    /\ \A p \in Platforms :
          /\ WF_vars(FetchReturns(p))
          /\ WF_vars(PublishReturns(p))
          /\ WF_vars(RetryDelayElapses(p))
    /\ WF_vars(BatchReturns)
    /\ WF_vars(BatchRaises)

\* C38: when every awaited call is eventually over, every sync_to_platform
\* coroutine eventually ends, having written its status and returned unless
\* one of its calls raised instead of returning, and the orchestrator call
\* eventually ends (a batch with its list, unless a coroutine raised). There
\* is no timeout: a batch returns its list only in a state in which every one
\* of its coroutines has returned, so a platform call that never returns
\* keeps it from returning.
C38_EventuallyReturns ==
    /\ \A p \in Platforms :
          (task[p].pc \in Live) ~> (task[p].pc \in {"done", "raised"})
    /\ (call.state = "running") ~> (call.state \in {"returned", "raised"})
    /\ [](\A p \in Platforms :
            /\ task[p].pc = "done" => task[p].status_writes = 1
            /\ task[p].pc = "raised" =>
                  (task[p].menu_data = "fault" \/ task[p].write_outcome = "other_error"))
    /\ [](call.state = "raised" => \E p \in Range(call.adapters) : task[p].pc = "raised")
    /\ []((call.kind = "batch" /\ call.state = "returned") =>
             \A p \in Range(call.adapters) : task[p].pc = "done")

\* A batch over both platforms has returned after one coroutine went through
\* the delay and a second publish attempt.
C38_Witness ==
    /\ call.kind = "batch" /\ call.state = "returned"
    /\ Len(call.adapters) = 2 /\ Len(call.results) = 2
    /\ \A p \in Platforms : task[p].pc = "done" /\ task[p].status_writes = 1
    /\ \E p \in Platforms : task[p].publish_calls = 2

====
